---- MODULE Spec2Model ----
(***************************************************************************)
(* Service Status Dashboard: the shared API client (apiFetch) with its     *)
(* sessionStorage cache, per-attempt timeout, retry with exponential       *)
(* back-off and stale fallback.                                            *)
(*                                                                         *)
(* JavaScript values are tagged records so that undefined, null, numbers,  *)
(* strings and objects can be told apart and compared.  Time is in ms.     *)
(***************************************************************************)
EXTENDS Integers, Sequences, FiniteSets, TLC

(* ------------------------------ bounds --------------------------------- *)
\* the clock advances in steps of TickMs, MaxTicks times at most
MaxTicks == 3
\* options.maxRetries, when given, ranges over -1 .. MaxRetriesOpt
MaxRetriesOpt == 1

(* ------------------------- program constants --------------------------- *)
DEFAULT_TIMEOUT_MS == 10000
DEFAULT_MAX_RETRIES == 2
DEFAULT_TTL_MS == 300000
BACKOFF_BASE_MS == 500
\* the clock advances in steps of the back-off base
TickMs == BACKOFF_BASE_MS

(* -------------------------- JavaScript values -------------------------- *)
Undefined == [t |-> "undefined"]
Null == [t |-> "null"]
Num(n) == [t |-> "num", n |-> n]
Str(s) == [t |-> "str", s |-> s]
Obj(fields) == [t |-> "obj", f |-> fields]
Arr(items) == [t |-> "arr", a |-> items]
\* Array.isArray
IsArray(x) == x.t = "arr"

\* JavaScript truthiness of a value
Truthy(x) ==
  CASE x.t = "undefined" -> FALSE
    [] x.t = "null" -> FALSE
    [] x.t = "num" -> x.n # 0
    [] x.t = "str" -> x.s # ""
    [] OTHER -> TRUE
\* a || b
Coalesce_Or(a, b) == IF Truthy(a) THEN a ELSE b

\* a ?? b
Coalesce(a, b) == IF a.t \in {"null", "undefined"} THEN b ELSE a
\* a || b where an object is destructured: (e.detail || {}), (counts || {})
Or(a, b) == IF Truthy(a) THEN a ELSE b
\* o.name : a property that is not there reads as undefined
Prop(o, name) ==
  IF o.t = "obj" /\ name \in DOMAIN o.f THEN o.f[name] ELSE Undefined
\* a destructuring default: ({ name = dflt } = options)
Default(v, dflt) == IF v.t = "undefined" THEN dflt ELSE v
\* a - b < c on JavaScript values: false as soon as one side is NaN
MinusLess(a, b, c) ==
  /\ a.t = "num" /\ b.t = "num" /\ c.t \in {"num", "null"}
  /\ a.n - b.n < (IF c.t = "null" THEN 0 ELSE c.n)

RECURSIVE Pow2(_)
Pow2(n) == IF n <= 0 THEN 1 ELSE 2 * Pow2(n - 1)

(* ------------------------------- inputs -------------------------------- *)
Calls == {1}
Keys == {"A", "B"}

\* the identities the calls of Spec are made for
Urls == {"A"}

NoOptions ==
  [ttlMs |-> Undefined, timeoutMs |-> Undefined, maxRetries |-> Undefined,
   parse |-> Undefined]
OptionSet ==
  {NoOptions}
    \cup {[NoOptions EXCEPT !.maxRetries = Num(n)] : n \in -1 .. MaxRetriesOpt}
    \cup {[NoOptions EXCEPT !.ttlMs = Num(1000), !.maxRetries = Num(0)],
          [NoOptions EXCEPT !.timeoutMs = Num(500), !.maxRetries = Num(1)],
          [NoOptions EXCEPT !.parse = Str("text"), !.maxRetries = Num(0)]}

\* Cache-Control header values as token sequences: a word, or a run of digits
\* held with the number it denotes.  NoHeader: headers.get() returns null.
Word(w) == [w |-> w]
Digits(n) == [d |-> n]
Header(toks) == [t |-> "hdr", toks |-> toks]
NoHeader == Null
CacheControls ==
  {NoHeader,
   Header(<<Word("no-store")>>),
   Header(<<Word("max-age="), Digits(0)>>),
   Header(<<Word("public"), Word(","), Word("max-age="), Digits(1),
            Word(","), Word("s-maxage="), Digits(1)>>),
   Header(<<Word("Max-Age="), Digits(2)>>)}

Bodies == {"{x:1}", "null", ""}

OkResponse(cc, body) ==
  [ok |-> TRUE, status |-> 200, statusText |-> "OK", cc |-> cc, body |-> body]
OkResponses ==
  {OkResponse(cc, "{x:1}") : cc \in CacheControls}
    \cup {OkResponse(NoHeader, body) : body \in Bodies}
ErrResponse(status, statusText) ==
  [ok |-> FALSE, status |-> status, statusText |-> statusText,
   cc |-> NoHeader, body |-> ""]
ErrResponses ==
  {ErrResponse(500, "Internal Server Error"),
   ErrResponse(503, "Service Unavailable")}
Responses == OkResponses \cup ErrResponses

\* what fetch() and the body readers reject with
NetworkError == [name |-> "TypeError", message |-> "Failed to fetch"]
AbortError == [name |-> "AbortError", message |-> "The user aborted a request."]
SyntaxError == [name |-> "SyntaxError", message |-> "Unexpected end of JSON input"]
NoError == [name |-> "", message |-> ""]

(* ------------------------- JSON and the storage ------------------------ *)
\* JSON.stringify of an object: properties whose value is undefined are left out
JSONstringify(o) ==
  LET kept == {k \in DOMAIN o.f : o.f[k].t # "undefined"}
  IN  [t |-> "json", v |-> Obj([k \in kept |-> o.f[k]])]
\* a stored string that is no JSON text
Garbage == [t |-> "garbage"]
\* a stored string that is JSON text but no {data, cachedAt, ttl} entry
Unshaped == [t |-> "json", v |-> Obj([x |-> Num(1)])]
\* JSON.parse: the value, or Thrown
Thrown == [t |-> "thrown"]
JSONparse(raw) == IF raw.t = "json" THEN raw.v ELSE Thrown

(* ----------------- what the FIRMS proxy reads and sends ----------------- *)
\* FIRMS CSV texts after trim(), as lines of cells: the empty text, a header
\* line alone, one hotspot, one hotspot whose line is short of a cell
Csvs ==
  {<< <<"">> >>,
   << <<"frp">> >>,
   << <<"frp">>, <<"150">> >>,
   << <<"frp", "lat">>, <<"30">> >>}

\* parseCsv of functions/api/firms.js: one object per line after the header
parseCsv(csv) ==
  IF Len(csv) < 2 THEN Arr(<<>>)
  ELSE LET headers == csv[1]
           index(h) == CHOOSE i \in 1 .. Len(headers) :
                         /\ headers[i] = h
                         /\ \A j \in 1 .. Len(headers) :
                              headers[j] = h => j <= i
           cell(values, i) == IF i <= Len(values) THEN Str(values[i])
                              ELSE Str("")
       IN  Arr([r \in 1 .. Len(csv) - 1 |->
                 Obj([h \in {headers[i] : i \in 1 .. Len(headers)} |->
                        cell(csv[r + 1], index(h))])])

\* the statuses the FIRMS service answers with
UpstreamStatuses == {200, 404, 500}
\* what fetch() rejects with on the server
UpstreamError == [name |-> "TypeError", message |-> "fetch failed"]
\* what upstream.text() rejects with when the body stream breaks
BodyStreamError == [name |-> "TypeError", message |-> "terminated"]

NotConfiguredBody ==
  Obj([error |-> Str("FIRMS_API_KEY environment variable is not configured.")])
UpstreamErrorBody(status) ==
  Obj([error |-> Str("FIRMS upstream error: HTTP " \o ToString(status))])
ProxyErrorBody(err) == Obj([error |-> Str("Proxy error: " \o err.message)])

\* JSON.stringify of a payload, as the text of a response body
RECURSIVE BodyText(_), FieldsText(_, _), ItemsText(_)
BodyText(v) ==
  CASE v.t = "str" -> "\"" \o v.s \o "\""
    [] v.t = "num" -> ToString(v.n)
    [] v.t = "arr" -> "[" \o ItemsText(v.a) \o "]"
    [] v.t = "obj" -> "{" \o FieldsText(v.f, DOMAIN v.f) \o "}"
    [] OTHER -> "null"
FieldsText(f, keys) ==
  IF keys = {} THEN ""
  ELSE LET k == CHOOSE k \in keys : TRUE
       IN  "\"" \o k \o "\":" \o BodyText(f[k])
             \o (IF keys = {k} THEN "" ELSE ",")
             \o FieldsText(f, keys \ {k})
ItemsText(items) ==
  IF items = <<>> THEN ""
  ELSE BodyText(Head(items)) \o (IF Len(items) = 1 THEN "" ELSE ",")
         \o ItemsText(Tail(items))

\* the payloads the proxy sends
ProxyPayloads ==
  {NotConfiguredBody, ProxyErrorBody(UpstreamError),
   ProxyErrorBody(BodyStreamError)}
    \cup {UpstreamErrorBody(status) : status \in UpstreamStatuses}
    \cup {parseCsv(csv) : csv \in Csvs}

\* response.json(): the decoded body, or the error it rejects with
ResponseJson(body) ==
  CASE body = "{x:1}" -> [err |-> NoError, data |-> Obj([x |-> Num(1)])]
    [] body = "null" -> [err |-> NoError, data |-> Null]
    [] OTHER ->
         LET read == {v \in ProxyPayloads : BodyText(v) = body}
         IN  IF read = {} THEN [err |-> SyntaxError, data |-> Undefined]
             ELSE [err |-> NoError, data |-> CHOOSE v \in read : TRUE]
\* response.text(): the body as it is
ResponseText(body) == [err |-> NoError, data |-> Str(body)]

VARIABLES
  now,            \* Date.now()
  sessionStorage, \* key -> stored string, or Null when there is no item
  pc,             \* per call: "idle", "fetch", "body", "sleep", "done"
  args,           \* per call: the url and the options it was called with
  cached,         \* per call: what readCache returned at the start
  remaining,      \* per call: the parameter of the running attempt
  lastError,      \* per call: the failure message carried along
  timer,          \* per call: when the pending setTimeout is due, or Null
  response,       \* per call: the Response whose body is being read
  result,         \* per call: what the call returned (or that it threw)
  hist,           \* per call: history of the call (attempts, waits, ...)
  lastSuccess,    \* per key: the last successful network attempt
  env,            \* the proxy's environment: FIRMS_API_KEY, or Undefined
  proxy,          \* the request onRequestGet is handling, and its response
  block,          \* the data block on the page, "none" without one
  dom,            \* what the block shows
  emitted,        \* the events the last render cycle dispatched
  pills,          \* status-summary: per source, the pill's classes and text
  hero,           \* dashboard-hero: readyCount, the status dot, the text
  listening,      \* per block: "no", "first" (first cycle running), "yes"
  cycles,         \* per block: render cycles in flight
  reported,       \* the sources that emitted dataReady since the last refresh
  health          \* api-health: cards, stat counts, filter, runs of runChecks

\* onRequestGet is handling no request
NoRequest ==
  [pc |-> "idle", url |-> "", upstream |-> Null, csv |-> <<>>, calls |-> 0,
   response |-> Null]
\* the page without a data block
NoDom == [t |-> "null"]

\* the page around apiFetch
pageVars == <<pills, hero, listening, cycles, reported, health>>
siteVars == <<env, proxy, block, dom, emitted, pageVars>>
callVars == <<now, sessionStorage, pc, args, cached, remaining, lastError,
              timer, response, result, hist, lastSuccess>>
vars == <<callVars, siteVars>>

(* ------------------------------ api-health ------------------------------ *)

S_OK == "operational"
S_WARN == "degraded"
S_DOWN == "down"
Statuses == {S_OK, S_WARN, S_DOWN}
\* the registry: id, type, and the validate function by what it looks for
APIS ==
  <<[id |-> "usgs", type |-> "External", wants |-> "features"],
    [id |-> "eonet", type |-> "External", wants |-> "events"],
    [id |-> "openmeteo", type |-> "External", wants |-> "current_weather"]>>
ApiIds == {APIS[i].id : i \in DOMAIN APIS}
ApiOf(id) == CHOOSE api \in {APIS[i] : i \in DOMAIN APIS} : api.id = id
FILTERS == {"All", "External", "Operational", "Degraded", "Down"}

\* api.validate(d): Array.isArray(d?.features), Array.isArray(d?.events),
\* d?.current_weather != null
validate(api, d) ==
  IF api.wants = "current_weather"
    THEN Prop(d, api.wants).t \notin {"null", "undefined"}
    ELSE IsArray(Prop(d, api.wants))

\* what a probe may meet: a status that is no success, a rejected fetch, the
\* abort by the 10 s timer, a body that cannot be decoded, a decoded body
ProbeBodies ==
  {Obj([features |-> Arr(<<>>)]), Obj([events |-> Arr(<<>>)]),
   Obj([current_weather |-> Obj([temperature |-> Num(1)])]), Null}
ProbeOutcomes ==
  {[kind |-> "status", resp |-> ErrResponse(500, "Internal Server Error")],
   [kind |-> "threw", err |-> NetworkError],
   [kind |-> "threw", err |-> AbortError],
   [kind |-> "undecodable"]}
    \cup {[kind |-> "decoded", data |-> d] : d \in ProbeBodies}

\* probeApi(api) on one outcome of its fetch: the status and the message
probeApi(api, outcome) ==
  CASE outcome.kind = "status" ->
         [id |-> api.id, status |-> S_DOWN,
          message |-> "HTTP " \o ToString(outcome.resp.status) \o " "
                        \o outcome.resp.statusText]
    [] outcome.kind = "undecodable" ->
         [id |-> api.id, status |-> S_DOWN,
          message |-> "Failed to parse response"]
    [] outcome.kind = "threw" ->
         [id |-> api.id, status |-> S_DOWN,
          message |-> IF outcome.err.name = "AbortError"
                        THEN "Request timed out"
                        ELSE outcome.err.message]
    [] OTHER ->
         IF ~validate(api, outcome.data)
           THEN [id |-> api.id, status |-> S_WARN,
                 message |-> "Unexpected response shape"]
           ELSE [id |-> api.id, status |-> S_OK, message |-> "Operational"]

CardStates == {"ah-card--loading", "ah-card--ok", "ah-card--warn",
               "ah-card--down"}
\* buildServiceCard: dataset.status is not set ("" here) until a probe ends
LoadingCard ==
  [classes |-> {"ah-card", "ah-card--loading"}, status |-> "",
   hidden |-> FALSE]
ModOf(status) ==
  CASE status = S_OK -> "ok"
    [] status = S_WARN -> "warn"
    [] OTHER -> "down"
\* updateCard(card, result)
updateCard(card, r) ==
  [card EXCEPT !.classes = (@ \ CardStates)
                             \cup {"ah-card--" \o ModOf(r.status)},
               !.status = r.status]
\* the reset of a card at the start of runChecks
ResetCard(card) ==
  [card EXCEPT !.classes = (@ \ {"ah-card--ok", "ah-card--warn",
                                  "ah-card--down"})
                             \cup {"ah-card--loading"},
               !.status = ""]
\* statusForFilter[f], "" when f names no status
StatusForFilter(f) ==
  CASE f = "Operational" -> S_OK
    [] f = "Degraded" -> S_WARN
    [] f = "Down" -> S_DOWN
    [] OTHER -> ""
\* applyFilter that leaves the cards as they are
applyFilter_KeepsHidden(h, f) == [h EXCEPT !.filter = f]

\* applyFilter(f)
applyFilter(h, f) ==
  [h EXCEPT
     !.filter = f,
     !.cards =
       [id \in DOMAIN h.cards |->
          LET card == h.cards[id]
              show == IF f = "External"
                        THEN ApiOf(id).type = "External"
                      ELSE IF StatusForFilter(f) # ""
                        THEN card.status = StatusForFilter(f)
                      ELSE TRUE
          IN  [card EXCEPT !.hidden = ~show]]]

Runs == {1, 2}
NoRun == [active |-> FALSE, results |-> [id \in ApiIds |-> "pending"]]
InitialHealth ==
  [cards |-> [id \in ApiIds |-> LoadingCard],
   stats |-> [s \in Statuses |-> 0],
   filter |-> "All",
   runs |-> [r \in Runs |-> NoRun]]

(* ------------- the listeners of status-summary and the hero ------------- *)

Sources == {"earthquakes", "eonet", "firms"}
\* the label of a pill: sources.find((s) => s.id === id)?.label ?? id
LabelOf(id) ==
  CASE id = "earthquakes" -> "Earthquakes"
    [] id = "eonet" -> "EONET Events"
    [] id = "firms" -> "Fire Hotspots"
    [] OTHER -> id
StateClasses ==
  {"summary-pill--loading", "summary-pill--ok", "summary-pill--warn",
   "summary-pill--critical", "summary-pill--error"}
\* a pill as created, and as reset by dashboard:refresh
LoadingPill(id) ==
  [classes |-> {"summary-pill", "summary-pill--loading"},
   text |-> LabelOf(id) \o ": loading"]
InitialPills == [id \in Sources |-> LoadingPill(id)]
\* pill.classList.remove(the five state classes), then add(cls)
WithState(pill, cls, text) ==
  [classes |-> (pill.classes \ StateClasses) \cup {cls}, text |-> text]
\* x > 0 on a JavaScript value
Positive(x) == x.t = "num" /\ x.n > 0
\* the number a value adds to a sum
Amount(x) == IF x.t = "num" THEN x.n ELSE 0

\* {} where an object is expected: every property reads as undefined
NoCounts == Obj([critical |-> Undefined, warn |-> Undefined, ok |-> Undefined])
NoDetail == Obj([source |-> Undefined, counts |-> Undefined, error |-> Undefined])

\* the classification that takes the counts before the error
Classify_CountsFirst(id, pill, counts, error) ==
  LET c == Or(counts, NoCounts)
      critical == Default(Prop(c, "critical"), Num(0))
      warn == Default(Prop(c, "warn"), Num(0))
      ok == Default(Prop(c, "ok"), Num(0))
      label == LabelOf(id)
  IN  IF Positive(critical)
        THEN WithState(pill, "summary-pill--critical",
                       label \o ": " \o ToString(critical.n) \o " critical")
      ELSE IF Positive(warn)
        THEN WithState(pill, "summary-pill--warn",
                       label \o ": " \o ToString(warn.n) \o " events")
      ELSE IF Truthy(error)
        THEN WithState(pill, "summary-pill--error", label \o ": error")
      ELSE WithState(pill, "summary-pill--ok",
                     label \o ": "
                       \o ToString(Amount(critical) + Amount(warn)
                                     + Amount(ok))
                       \o " events")

\* the body of the dataReady listener once the pill is found
Classify(id, pill, counts, error) ==
  LET c == Or(counts, NoCounts)
      critical == Default(Prop(c, "critical"), Num(0))
      warn == Default(Prop(c, "warn"), Num(0))
      ok == Default(Prop(c, "ok"), Num(0))
      label == LabelOf(id)
  IN  IF Truthy(error) /\ ~Truthy(counts)
        THEN WithState(pill, "summary-pill--error", label \o ": error")
      ELSE IF Positive(critical)
        THEN WithState(pill, "summary-pill--critical",
                       label \o ": " \o ToString(critical.n) \o " critical")
      ELSE IF Positive(warn)
        THEN WithState(pill, "summary-pill--warn",
                       label \o ": " \o ToString(warn.n) \o " events")
      ELSE WithState(pill, "summary-pill--ok",
                     label \o ": "
                       \o ToString(Amount(critical) + Amount(warn)
                                     + Amount(ok))
                       \o " events")

\* the dashboard:dataReady listener of status-summary
SummaryOnDataReady(p, detail) ==
  LET d == Or(detail, NoDetail)
      source == Prop(d, "source")
  IN  IF ~Truthy(source) \/ source.t # "str" \/ source.s \notin DOMAIN p
        THEN p
        ELSE [p EXCEPT ![source.s] =
                Classify(source.s, @, Prop(d, "counts"), Prop(d, "error"))]
\* the dashboard:refresh listener of status-summary
SummaryOnRefresh(p) == [id \in DOMAIN p |-> LoadingPill(id)]

TOTAL_SOURCES == 3
InitialHero ==
  [readyCount |-> 0, dot |-> {"hero-status-dot", "loading"},
   lastUpdated |-> "Loading data"]
\* onDataReady of dashboard-hero
onDataReady(h, time) ==
  [readyCount |-> h.readyCount + 1,
   lastUpdated |-> "Last updated: " \o ToString(time),
   dot |-> IF h.readyCount + 1 >= TOTAL_SOURCES
             THEN (h.dot \ {"loading"}) \cup {"ok"}
             ELSE h.dot]
\* onRefresh of dashboard-hero
onRefresh(h) ==
  [readyCount |-> 0, dot |-> {"hero-status-dot", "loading"},
   lastUpdated |-> "Refreshing"]


(* ------------------------------ the cache ------------------------------ *)
\* sessionStorage.getItem
GetItem(key) == sessionStorage[key]
\* setItem that loses the item it could not replace
SetItem_DropsItem(key, value, quotaExceeded) ==
  [sessionStorage EXCEPT ![key] = IF quotaExceeded THEN Null ELSE value]

\* sessionStorage.setItem: the new storage, or Thrown when the quota is exceeded
SetItem(key, value, quotaExceeded) ==
  IF quotaExceeded THEN Thrown ELSE [sessionStorage EXCEPT ![key] = value]

\* readCache without its try/catch
readCache_NoCatch(key) ==
  LET raw == GetItem(key)
  IN  IF ~Truthy(raw) THEN Null ELSE JSONparse(raw)

readCache(key) ==
  LET raw == GetItem(key)
  IN  IF ~Truthy(raw) THEN Null
      ELSE LET v == JSONparse(raw)
           IN  IF v = Thrown THEN Null ELSE v

\* writeCache that stores the TTL in seconds
writeCache_TtlSeconds(key, data, ttlMs, quotaExceeded) ==
  LET entry == Obj([data |-> data, cachedAt |-> Num(now),
                    ttl |-> Num(ttlMs.n \div 1000)])
      stored == SetItem(key, JSONstringify(entry), quotaExceeded)
  IN  IF stored = Thrown THEN sessionStorage ELSE stored

\* writeCache that keeps an item that is already there
writeCache_NoOverwrite(key, data, ttlMs, quotaExceeded) ==
  LET entry == Obj([data |-> data, cachedAt |-> Num(now), ttl |-> ttlMs])
      stored == SetItem(key, JSONstringify(entry), quotaExceeded)
  IN  IF stored = Thrown \/ GetItem(key) # Null THEN sessionStorage ELSE stored

\* writeCache that updates an entry in place and keeps its cachedAt
writeCache_KeepsStoredAt(key, data, ttlMs, quotaExceeded) ==
  LET old == readCache(key)
      at == IF Prop(old, "cachedAt").t = "num" THEN old.f.cachedAt
            ELSE Num(now)
      entry == Obj([data |-> data, cachedAt |-> at, ttl |-> ttlMs])
      stored == SetItem(key, JSONstringify(entry), quotaExceeded)
  IN  IF stored = Thrown THEN sessionStorage ELSE stored

\* writeCache that updates an entry in place and keeps its ttl
writeCache_KeepsTtl(key, data, ttlMs, quotaExceeded) ==
  LET old == readCache(key)
      ttl == IF Prop(old, "ttl").t = "num" THEN old.f.ttl ELSE ttlMs
      entry == Obj([data |-> data, cachedAt |-> Num(now), ttl |-> ttl])
      stored == SetItem(key, JSONstringify(entry), quotaExceeded)
  IN  IF stored = Thrown THEN sessionStorage ELSE stored

\* the storage after writeCache(key, data, ttlMs)
writeCache(key, data, ttlMs, quotaExceeded) ==
  LET entry == Obj([data |-> data, cachedAt |-> Num(now), ttl |-> ttlMs])
      stored == SetItem(key, JSONstringify(entry), quotaExceeded)
  IN  IF stored = Thrown THEN sessionStorage ELSE stored

parseCacheControlMaxAge(resp) ==
  LET cc == IF Truthy(resp.cc) THEN resp.cc.toks ELSE <<>>
      at == {i \in 1 .. Len(cc) - 1 :
               cc[i] = Word("max-age=") /\ "d" \in DOMAIN cc[i + 1]}
      first == CHOOSE i \in at : \A j \in at : i <= j
  IN  IF at = {} THEN Null ELSE Num(cc[first + 1].d * 1000)

(* ------------------------------ apiFetch ------------------------------- *)
Returned(data, error, stale) ==
  [kind |-> "return", data |-> data, error |-> error, stale |-> stale]
Rejected == [kind |-> "throw"]
NoResult == [kind |-> "none"]

NoHist ==
  [netCalls |-> 0, failed |-> 0, waits |-> <<>>, lastMsg |-> Null,
   stored |-> Null, prior |-> Null, how |-> "none", since |-> Null]
NoArgs == [url |-> "", options |-> Undefined]

ttlMsOf(options) == Default(options.ttlMs, Num(DEFAULT_TTL_MS))
timeoutMsOf(options) == Default(options.timeoutMs, Num(DEFAULT_TIMEOUT_MS))
maxRetriesOf(options) == Default(options.maxRetries, Num(DEFAULT_MAX_RETRIES)).n
parseOf(options) == Default(options.parse, Str("json")).s

\* the comparison turned round
IsFresh_Inverted(cachedV) ==
  Truthy(cachedV)
    /\ ~MinusLess(Num(now), Prop(cachedV, "cachedAt"), Prop(cachedV, "ttl"))

\* the cached entry is fresh
IsFresh(cachedV) ==
  Truthy(cachedV)
    /\ MinusLess(Num(now), Prop(cachedV, "cachedAt"), Prop(cachedV, "ttl"))

\* the fallback that forgets the cached entry
Fallback_NoCache(cachedV, err) == Returned(Null, err, FALSE)

\* what attempt() returns once remaining < 0
Fallback(cachedV, err) ==
  IF Truthy(cachedV) THEN Returned(Prop(cachedV, "data"), err, TRUE)
  ELSE Returned(Null, err, FALSE)

\* the guard off by one
Exhausted_OffByOne(rem) == rem <= 0

\* all retries failed
Exhausted(rem) == rem < 0

\* attempt(rem, err) up to its await of fetch()
\* the attempt that starts no timer of its own when one is already held
attempt_KeepsTimer(c, cachedV, options, rem, err, h) ==
  /\ remaining' = [remaining EXCEPT ![c] = rem]
  /\ lastError' = [lastError EXCEPT ![c] = err]
  /\ IF Exhausted(rem)
       THEN /\ result' = [result EXCEPT ![c] = Fallback(cachedV, err)]
            /\ pc' = [pc EXCEPT ![c] = "done"]
            /\ timer' = [timer EXCEPT ![c] = Null]
            /\ hist' = [hist EXCEPT ![c] = [h EXCEPT !.how = "fallback"]]
       ELSE /\ result' = [result EXCEPT ![c] = NoResult]
            /\ pc' = [pc EXCEPT ![c] = "fetch"]
            /\ timer' = [timer EXCEPT
                           ![c] = IF timer[c] = Null
                                    THEN Num(now + timeoutMsOf(options).n)
                                    ELSE timer[c]]
            /\ hist' = [hist EXCEPT ![c] = [h EXCEPT !.netCalls = @ + 1,
                                                      !.since = Num(now)]]

\* the attempt that reads the cache again when it falls back
attempt_RereadsCache(c, cachedV, options, rem, err, h) ==
  /\ remaining' = [remaining EXCEPT ![c] = rem]
  /\ lastError' = [lastError EXCEPT ![c] = err]
  /\ IF Exhausted(rem)
       THEN /\ result' = [result EXCEPT
                            ![c] = Fallback(IF pc[c] = "idle" THEN cachedV
                                            ELSE readCache(args[c].url), err)]
            /\ pc' = [pc EXCEPT ![c] = "done"]
            /\ timer' = [timer EXCEPT ![c] = Null]
            /\ hist' = [hist EXCEPT ![c] = [h EXCEPT !.how = "fallback"]]
       ELSE /\ result' = [result EXCEPT ![c] = NoResult]
            /\ pc' = [pc EXCEPT ![c] = "fetch"]
            /\ timer' = [timer EXCEPT ![c] = Num(now + timeoutMsOf(options).n)]
            /\ hist' = [hist EXCEPT ![c] = [h EXCEPT !.netCalls = @ + 1,
                                                      !.since = Num(now)]]

\* attempt(remaining, lastError) up to its first await
attempt(c, cachedV, options, rem, err, h) ==
  /\ remaining' = [remaining EXCEPT ![c] = rem]
  /\ lastError' = [lastError EXCEPT ![c] = err]
  /\ IF Exhausted(rem)
       THEN /\ result' = [result EXCEPT ![c] = Fallback(cachedV, err)]
            /\ pc' = [pc EXCEPT ![c] = "done"]
            /\ timer' = [timer EXCEPT ![c] = Null]
            /\ hist' = [hist EXCEPT ![c] = [h EXCEPT !.how = "fallback"]]
       ELSE /\ result' = [result EXCEPT ![c] = NoResult]
            /\ pc' = [pc EXCEPT ![c] = "fetch"]
            /\ timer' = [timer EXCEPT ![c] = Num(now + timeoutMsOf(options).n)]
            /\ hist' = [hist EXCEPT ![c] = [h EXCEPT !.netCalls = @ + 1,
                                                      !.since = Num(now)]]

\* the last successful fetch, when the effective TTL chosen at its write has
\* not elapsed yet; Null otherwise
WithinTtlOf(w) ==
  IF w # Null /\ now - w.at < w.ttl.n
    THEN [t |-> "fetched", data |-> w.data, stored |-> w.stored]
    ELSE Null

\* apiFetch(url, options) up to its first await
apiFetch(c, url, options) ==
  /\ pc[c] = "idle"
  /\ LET cachedV == readCache(url)
         h == [NoHist EXCEPT !.stored = GetItem(url),
                             !.prior = WithinTtlOf(lastSuccess[url])]
     IN  /\ args' = [args EXCEPT ![c] = [url |-> url, options |-> options]]
         /\ IF cachedV = Thrown
              THEN /\ cached' = [cached EXCEPT ![c] = Null]
                   /\ result' = [result EXCEPT ![c] = Rejected]
                   /\ pc' = [pc EXCEPT ![c] = "done"]
                   /\ hist' = [hist EXCEPT ![c] = [h EXCEPT !.how = "throw"]]
                   /\ UNCHANGED <<remaining, lastError, timer>>
              ELSE /\ cached' = [cached EXCEPT ![c] = cachedV]
                   /\ IF IsFresh(cachedV)
                        THEN /\ result' = [result EXCEPT ![c] =
                                  Returned(Prop(cachedV, "data"), Null, FALSE)]
                             /\ pc' = [pc EXCEPT ![c] = "done"]
                             /\ hist' = [hist EXCEPT ![c] =
                                          [h EXCEPT !.how = "fresh"]]
                             /\ UNCHANGED <<remaining, lastError, timer>>
                        ELSE attempt(c, cachedV, options,
                                     maxRetriesOf(options), Null, h)
  /\ UNCHANGED <<now, sessionStorage, response, lastSuccess>>

\* a call of apiFetch with no page around it
ApiFetch(c, url, options) == apiFetch(c, url, options) /\ UNCHANGED siteVars

\* the history after one more failed attempt: its message and the sleep asked for
Failed(h, msg, wait) ==
  [h EXCEPT !.failed = @ + 1, !.waits = Append(@, wait), !.lastMsg = msg,
            !.since = Null]

\* a failed attempt with message msg: the optional sleep, then
\* attempt(remaining - 1, carried)
FailedAttempt(c, msg, carried, waitMs) ==
  LET options == args[c].options
  IN  IF remaining[c] > 0
        THEN /\ pc' = [pc EXCEPT ![c] = "sleep"]
             /\ timer' = [timer EXCEPT ![c] = Num(now + waitMs)]
             /\ lastError' = [lastError EXCEPT ![c] = carried]
             /\ hist' = [hist EXCEPT ![c] = Failed(@, msg, Num(waitMs))]
             /\ UNCHANGED <<remaining, result>>
        ELSE attempt(c, cached[c], options, remaining[c] - 1, carried,
                     Failed(hist[c], msg, Null))

\* the retry that keeps the message of the first failure
Retry_FirstError(c, msg, waitMs) ==
  FailedAttempt(c, msg, IF lastError[c] = Null THEN msg ELSE lastError[c],
                waitMs)

\* return attempt(remaining - 1, err) after the sleep
Retry(c, msg, waitMs) == FailedAttempt(c, msg, msg, waitMs)

\* the !response.ok branch sleeping twice as long as the catch branch
StatusBackoff_Double(maxRetries, rem) ==
  2 * BACKOFF_BASE_MS * Pow2(maxRetries - rem)

\* the delay of the sleep in the !response.ok branch
StatusBackoff(maxRetries, rem) == BACKOFF_BASE_MS * Pow2(maxRetries - rem)
\* the exponent taken from remaining
CatchBackoff_ByRemaining(maxRetries, rem) == BACKOFF_BASE_MS * Pow2(rem)

\* the delay of the sleep in the catch branch
CatchBackoff(maxRetries, rem) == BACKOFF_BASE_MS * Pow2(maxRetries - rem)

\* the message without the status text
StatusMessage_StatusOnly(resp) == Str("HTTP " \o ToString(resp.status))

\* the message of a response whose status is not a success
StatusMessage(resp) ==
  Str("HTTP " \o ToString(resp.status) \o " " \o resp.statusText)
CatchMessage(err) ==
  Str(IF err.name = "AbortError" THEN "Request timed out" ELSE err.message)

\* the catch block of attempt()
Catch(c, err) ==
  /\ Retry(c, CatchMessage(err),
           CatchBackoff(maxRetriesOf(args[c].options), remaining[c]))
  /\ response' = [response EXCEPT ![c] = Null]
  /\ UNCHANGED <<now, sessionStorage, args, cached, lastSuccess>>

\* the tail of a successful attempt: TTL, cache write, return
Succeed(c, resp, data, quotaExceeded) ==
  LET url == args[c].url
      serverTtl == parseCacheControlMaxAge(resp)
      ttl == Coalesce(serverTtl, ttlMsOf(args[c].options))
      w == [t |-> "fetched", data |-> data, at |-> now, ttl |-> ttl,
            stored |-> ~quotaExceeded]
  IN  /\ sessionStorage' = writeCache(url, data, ttl, quotaExceeded)
      /\ result' = [result EXCEPT ![c] = Returned(data, Null, FALSE)]
      /\ pc' = [pc EXCEPT ![c] = "done"]
      /\ timer' = [timer EXCEPT ![c] = Null]
      /\ response' = [response EXCEPT ![c] = Null]
      /\ hist' = [hist EXCEPT ![c].how = "success", ![c].since = Null]
      /\ lastSuccess' = [lastSuccess EXCEPT ![url] = w]
      /\ UNCHANGED <<now, args, cached, remaining, lastError>>

\* the !response.ok branch
NotOk(c, resp) ==
  /\ pc[c] = "fetch"
  /\ ~resp.ok
  /\ Retry(c, StatusMessage(resp),
           StatusBackoff(maxRetriesOf(args[c].options), remaining[c]))
  /\ response' = [response EXCEPT ![c] = resp]
  /\ UNCHANGED <<now, sessionStorage, args, cached, lastSuccess>>

\* a response with a success status: the timer is cleared, the body awaited
Ok(c, resp) ==
  /\ pc[c] = "fetch"
  /\ resp.ok
  /\ pc' = [pc EXCEPT ![c] = "body"]
  /\ timer' = [timer EXCEPT ![c] = Null]
  /\ response' = [response EXCEPT ![c] = resp]
  /\ UNCHANGED <<now, sessionStorage, args, cached, remaining, lastError,
                 result, hist, lastSuccess>>

\* fetch() resolves with a non-success status
FetchNotOk(c, resp) == NotOk(c, resp) /\ UNCHANGED siteVars

\* fetch() resolves with a success status and the body is awaited
FetchOk(c, resp) == Ok(c, resp) /\ UNCHANGED siteVars

\* fetch() rejects
FetchRejects(c) ==
  /\ pc[c] = "fetch"
  /\ Catch(c, NetworkError)
  /\ UNCHANGED siteVars

\* the timeout callback runs: controller.abort() makes fetch() reject
TimeoutFires(c) ==
  /\ pc[c] = "fetch"
  /\ timer[c].t = "num"
  /\ timer[c].n <= now
  /\ Catch(c, AbortError)
  /\ UNCHANGED siteVars

\* response.json() / response.text() settles
BodyRead(c, quotaExceeded) ==
  /\ pc[c] = "body"
  /\ LET r == IF parseOf(args[c].options) = "json"
                THEN ResponseJson(response[c].body)
                ELSE ResponseText(response[c].body)
     IN  IF r.err = NoError
           THEN Succeed(c, response[c], r.data, quotaExceeded)
           ELSE Catch(c, r.err)
  /\ UNCHANGED siteVars

\* the body stream breaks while it is read
BodyFails(c) ==
  /\ pc[c] = "body"
  /\ Catch(c, NetworkError)
  /\ UNCHANGED siteVars

\* the back-off sleep is over
Wake(c) ==
  /\ pc[c] = "sleep"
  /\ timer[c].n <= now
  /\ attempt(c, cached[c], args[c].options, remaining[c] - 1, lastError[c],
             hist[c])
  /\ response' = [response EXCEPT ![c] = Null]
  /\ UNCHANGED <<now, sessionStorage, args, cached, lastSuccess>>
  /\ UNCHANGED siteVars

\* the awaiting caller resumes with the result; the slot is free again
Resume(c) ==
  /\ pc[c] = "done"
  /\ pc' = [pc EXCEPT ![c] = "idle"]
  /\ args' = [args EXCEPT ![c] = NoArgs]
  /\ cached' = [cached EXCEPT ![c] = Null]
  /\ remaining' = [remaining EXCEPT ![c] = 0]
  /\ lastError' = [lastError EXCEPT ![c] = Null]
  /\ result' = [result EXCEPT ![c] = NoResult]
  /\ hist' = [hist EXCEPT ![c] = NoHist]
  /\ response' = [response EXCEPT ![c] = Null]
  /\ UNCHANGED <<now, sessionStorage, timer, lastSuccess>>

\* the caller has its result; the slot is free for the next call
Return(c) == Resume(c) /\ UNCHANGED siteVars

\* time passes; a due abort timer runs its callback before more time passes
Tick ==
  /\ now < MaxTicks * TickMs
  /\ \A c \in DOMAIN pc : pc[c] # "done"
  /\ \A c \in DOMAIN pc : pc[c] = "fetch" => now < timer[c].n
  /\ now' = now + TickMs
  /\ UNCHANGED <<sessionStorage, pc, args, cached, remaining, lastError, timer,
                 response, result, hist, lastSuccess>>
  /\ UNCHANGED siteVars

Init ==
  /\ now = 0
  /\ sessionStorage \in
       {[k \in Keys |-> raw] : raw \in {Null, Garbage, Unshaped}}
  /\ pc = [c \in Calls |-> "idle"]
  /\ args = [c \in Calls |-> NoArgs]
  /\ cached = [c \in Calls |-> Null]
  /\ remaining = [c \in Calls |-> 0]
  /\ lastError = [c \in Calls |-> Null]
  /\ timer = [c \in Calls |-> Null]
  /\ response = [c \in Calls |-> Null]
  /\ result = [c \in Calls |-> NoResult]
  /\ hist = [c \in Calls |-> NoHist]
  /\ lastSuccess = [k \in Keys |-> Null]
  /\ env = Undefined
  /\ proxy = NoRequest
  /\ block = "none"
  /\ dom = NoDom
  /\ emitted = <<>>
  /\ pills = InitialPills
  /\ hero = InitialHero
  /\ listening = [b \in Sources |-> "no"]
  /\ cycles = [b \in Sources |-> 0]
  /\ reported = {}
  /\ health = InitialHealth

Next ==
  \/ \E c \in Calls, url \in Urls, options \in OptionSet : ApiFetch(c, url, options)
  \/ \E c \in Calls, resp \in Responses : FetchNotOk(c, resp)
  \/ \E c \in Calls, resp \in Responses : FetchOk(c, resp)
  \/ \E c \in Calls : FetchRejects(c)
  \/ \E c \in Calls : TimeoutFires(c)
  \/ \E c \in Calls, q \in BOOLEAN : BodyRead(c, q)
  \/ \E c \in Calls : BodyFails(c)
  \/ \E c \in Calls : Wake(c)
  \/ \E c \in Calls : Return(c)
  \/ Tick

Spec == Init /\ [][Next]_vars

(* ------------------- two calls that overlap in time -------------------- *)
\* two callers of apiFetch on the same page
OverlapCalls == {1, 2}
OverlapOptions ==
  {[NoOptions EXCEPT !.ttlMs = Num(1000), !.maxRetries = Num(1)]}
OverlapResponses ==
  {OkResponse(NoHeader, "{x:1}"),
   OkResponse(Header(<<Word("max-age="), Digits(0)>>), "null"),
   ErrResponse(500, "Internal Server Error")}

InitOverlap ==
  /\ now = 0
  /\ sessionStorage = [k \in Keys |-> Null]
  /\ pc = [c \in OverlapCalls |-> "idle"]
  /\ args = [c \in OverlapCalls |-> NoArgs]
  /\ cached = [c \in OverlapCalls |-> Null]
  /\ remaining = [c \in OverlapCalls |-> 0]
  /\ lastError = [c \in OverlapCalls |-> Null]
  /\ timer = [c \in OverlapCalls |-> Null]
  /\ response = [c \in OverlapCalls |-> Null]
  /\ result = [c \in OverlapCalls |-> NoResult]
  /\ hist = [c \in OverlapCalls |-> NoHist]
  /\ lastSuccess = [k \in Keys |-> Null]
  /\ env = Undefined
  /\ proxy = NoRequest
  /\ block = "none"
  /\ dom = NoDom
  /\ emitted = <<>>
  /\ pills = InitialPills
  /\ hero = InitialHero
  /\ listening = [b \in Sources |-> "no"]
  /\ cycles = [b \in Sources |-> 0]
  /\ reported = {}
  /\ health = InitialHealth

\* the default timeout of 10 s does not elapse within the time modelled, so
\* the timeout callback has no step here; an attempt fails by its status
NextOverlap ==
  \/ \E c \in OverlapCalls, url \in Urls, options \in OverlapOptions :
       ApiFetch(c, url, options)
  \/ \E c \in OverlapCalls, resp \in OverlapResponses : FetchNotOk(c, resp)
  \/ \E c \in OverlapCalls, resp \in OverlapResponses : FetchOk(c, resp)
  \/ \E c \in OverlapCalls, q \in BOOLEAN : BodyRead(c, q)
  \/ \E c \in OverlapCalls : Wake(c)
  \/ \E c \in OverlapCalls : Return(c)
  \/ Tick

SpecOverlap == InitOverlap /\ [][NextOverlap]_vars

(* --------------------------- the FIRMS proxy --------------------------- *)
\* the values of env.FIRMS_API_KEY: not set, or a MAP key
ApiKeys == {Undefined, Str("MAPKEY"), Str("OTHERKEY")}
FIRMS_BASE == "https://firms.modaps.eosdis.nasa.gov/api/area/csv"
\* firmsUrl for a request without query parameters
FirmsUrl(apiKey) == FIRMS_BASE \o "/" \o apiKey.s \o "/VIIRS_SNPP_NRT/world/1"
\* the Cache-Control header of the proxy's 200 response
ProxyCacheControl ==
  Header(<<Word("public"), Word(","), Word("max-age="), Digits(1800),
           Word(","), Word("s-maxage="), Digits(1800)>>)
\* new Response(JSON.stringify(payload), {status, headers}) as the browser's
\* fetch() sees it
ProxyResponse(status, payload, cc) ==
  [ok |-> status \in 200 .. 299, status |-> status, statusText |-> "",
   cc |-> cc, body |-> BodyText(payload)]

\* the answer without a key, sent as a success
Unconfigured_Ok == ProxyResponse(200, NotConfiguredBody, NoHeader)

\* the answer when FIRMS_API_KEY is not set
Unconfigured == ProxyResponse(503, NotConfiguredBody, NoHeader)

\* the catch block that reports the URL it fetched
ProxyCatch_LeaksUrl(err, outcome) ==
  proxy' = [proxy EXCEPT
              !.pc = "done", !.upstream = outcome,
              !.response =
                ProxyResponse(500,
                              Obj([error |-> Str("Proxy error: " \o err.message
                                                   \o " " \o proxy.url)]),
                              NoHeader)]

\* the catch block of onRequestGet
ProxyCatch(err, outcome) ==
  proxy' = [proxy EXCEPT !.pc = "done", !.upstream = outcome,
                         !.response = ProxyResponse(500, ProxyErrorBody(err),
                                                    NoHeader)]

\* onRequestGet up to its await of the upstream fetch()
OnRequestGet ==
  /\ block = "firms"
  /\ pc[1] = "fetch"
  /\ proxy.pc = "idle"
  /\ proxy' = IF ~Truthy(env)
                THEN [NoRequest EXCEPT !.pc = "done", !.response = Unconfigured]
                ELSE [NoRequest EXCEPT !.pc = "upstream", !.calls = 1,
                                       !.url = FirmsUrl(env)]
  /\ UNCHANGED <<callVars, env, block, dom, emitted, pageVars>>

\* the upstream fetch() resolves
UpstreamResponds(status, csv) ==
  /\ proxy.pc = "upstream"
  /\ proxy' =
       IF status \notin 200 .. 299
         THEN [proxy EXCEPT
                 !.pc = "done",
                 !.upstream = [kind |-> "status", status |-> status],
                 !.response = ProxyResponse(status, UpstreamErrorBody(status),
                                            NoHeader)]
         ELSE [proxy EXCEPT
                 !.pc = "text",
                 !.upstream = [kind |-> "status", status |-> status],
                 !.csv = csv]
  /\ UNCHANGED <<callVars, env, block, dom, emitted, pageVars>>

\* the upstream fetch() rejects
UpstreamRejects ==
  /\ proxy.pc = "upstream"
  /\ ProxyCatch(UpstreamError, [kind |-> "rejected"])
  /\ UNCHANGED <<callVars, env, block, dom, emitted, pageVars>>

\* upstream.text() resolves: the CSV is decoded and sent
TextRead ==
  /\ proxy.pc = "text"
  /\ proxy' = [proxy EXCEPT
                 !.pc = "done",
                 !.response = ProxyResponse(200, parseCsv(proxy.csv),
                                            ProxyCacheControl)]
  /\ UNCHANGED <<callVars, env, block, dom, emitted, pageVars>>

\* upstream.text() rejects
TextRejects ==
  /\ proxy.pc = "text"
  /\ ProxyCatch(BodyStreamError, [kind |-> "unread"])
  /\ UNCHANGED <<callVars, env, block, dom, emitted, pageVars>>

\* the proxy's response reaches the fetch() of the attempt that asked for it
Deliver ==
  /\ proxy.pc = "done"
  /\ \/ Ok(1, proxy.response)
     \/ NotOk(1, proxy.response)
  /\ proxy' = NoRequest
  /\ UNCHANGED <<env, block, dom, emitted, pageVars>>

(* --------------------------- the data blocks --------------------------- *)
Blocks == {"earthquakes", "eonet", "firms"}
USGS_URL ==
  "https://earthquake.usgs.gov/earthquakes/feed/v1.0/summary/all_day.geojson"
EONET_URL == "https://eonet.gsfc.nasa.gov/api/v3/events?status=open&limit=50"
PROXY_URL == "/api/firms"
UrlOf(b) ==
  CASE b = "earthquakes" -> USGS_URL
    [] b = "eonet" -> EONET_URL
    [] OTHER -> PROXY_URL
SiteKeys == {UrlOf(b) : b \in Blocks}
\* the options each block passes to apiFetch
BlockOptions(b) ==
  CASE b = "earthquakes" -> [NoOptions EXCEPT !.ttlMs = Num(5 * 60 * 1000)]
    [] b = "eonet" -> [NoOptions EXCEPT !.ttlMs = Num(15 * 60 * 1000)]
    [] OTHER -> [NoOptions EXCEPT !.ttlMs = Num(30 * 60 * 1000),
                                  !.parse = Str("json")]

\* what the USGS and EONET services answer
SiteResponses ==
  {OkResponse(NoHeader, "{x:1}"), OkResponse(NoHeader, "null"),
   ErrResponse(500, "Internal Server Error")}

\* the block as decorate() leaves it before the first render cycle; warnings
\* counts the .stale-warning elements that are children of the block itself
InitialDom ==
  [t |-> "dom", skeleton |-> TRUE, error |-> Null, content |-> Null,
   warnings |-> 0, notice |-> FALSE]
\* the table or card grid of a block, with the warning it may hold
Content(items, warn) == [t |-> "content", items |-> items, warn |-> warn]
Event(name, detail) == [name |-> name, detail |-> detail]
DataReady(source, counts, error) ==
  Event("dashboard:dataReady",
        Obj([source |-> Str(source), counts |-> counts, error |-> error]))

\* document.dispatchEvent: the listeners of status-summary and of the hero
\* run before the call returns
RECURSIVE PillsHeard(_, _)
PillsHeard(p, events) ==
  IF events = <<>> THEN p
  ELSE PillsHeard(IF Head(events).name = "dashboard:dataReady"
                    THEN SummaryOnDataReady(p, Head(events).detail)
                    ELSE p,
                  Tail(events))
RECURSIVE HeroHeard(_, _, _)
HeroHeard(h, events, time) ==
  IF events = <<>> THEN h
  ELSE HeroHeard(IF Head(events).name = "dashboard:dataReady"
                   THEN onDataReady(h, time)
                   ELSE h,
                 Tail(events), time)

\* x ?? [] for the lists the blocks walk through
Items(x) == IF IsArray(x) THEN x.a ELSE <<>>
\* the number of items of each severity
Tally(severities) ==
  [sev \in {"critical", "warn", "ok"} |->
     Cardinality({i \in 1 .. Len(severities) : severities[i] = sev})]
Counts(critical, warn, ok) ==
  Obj([critical |-> Num(critical), warn |-> Num(warn), ok |-> Num(ok)])

\* severityClass(f.properties.mag ?? 0) of earthquake-feed
severityClass(f) ==
  LET mag == Coalesce(Prop(Prop(f, "properties"), "mag"), Num(0))
  IN  IF mag.t # "num" THEN "ok"
      ELSE IF mag.n >= 5 THEN "critical"
      ELSE IF 2 * mag.n >= 5 THEN "warn"
      ELSE "ok"
\* the categories eonet-events counts as critical
CRITICAL_CATS == {"wildfires", "severe storms", "volcanoes", "floods"}
eonetSeverity(ev) ==
  LET cats == Items(Prop(ev, "categories"))
      title == IF cats = <<>> THEN Undefined ELSE Prop(cats[1], "title")
  IN  IF title.t = "str" /\ title.s \in CRITICAL_CATS THEN "critical"
      ELSE "warn"
\* parseFloat of the FRP cells of the model
ParseFloat(x) ==
  CASE x = Str("150") -> Num(150)
    [] x = Str("30") -> Num(30)
    [] OTHER -> Undefined
\* frpSeverity(r.frp) of firms-fires
frpSeverity(r) ==
  LET val == ParseFloat(Prop(r, "frp"))
  IN  IF val.t # "num" THEN "unknown"
      ELSE IF val.n >= 100 THEN "critical"
      ELSE IF val.n >= 25 THEN "warn"
      ELSE "ok"

\* the error state shown whenever there is an error
ShowsError_AnyError(data, error) == Truthy(error)

\* if (error && !data)
ShowsError(data, error) == Truthy(error) /\ ~Truthy(data)

\* if (data && !Array.isArray(data) && data.error)
IsUnconfigured(data) ==
  Truthy(data) /\ ~IsArray(data) /\ Truthy(Prop(data, "error"))

\* a render cycle begins: fetchAndRender() calls apiFetch and awaits it
\* fetchAndRender() up to its await
FetchAndRender == apiFetch(1, UrlOf(block), BlockOptions(block))

\* decorate() of the block runs its first render cycle; the block hears
\* dashboard:refresh only once that cycle is over
Decorate ==
  /\ listening[block] = "no"
  /\ FetchAndRender
  /\ listening' = [listening EXCEPT ![block] = "first"]
  /\ UNCHANGED <<env, proxy, block, dom, emitted, pills, hero, cycles,
                 reported, health>>

\* dashboard:refresh is dispatched: the hero and status-summary reset, and a
\* block that listens starts a render cycle.  One cycle of the block runs at
\* a time here.
Refresh ==
  /\ listening[block] = "yes" => pc[1] = "idle"
  /\ hero' = onRefresh(hero)
  /\ pills' = SummaryOnRefresh(pills)
  /\ IF listening[block] = "yes" THEN FetchAndRender ELSE UNCHANGED callVars
  /\ UNCHANGED <<env, proxy, block, dom, emitted, listening, cycles,
                 reported, health>>

\* the events of the cycle that ends reach the listeners of the page, and
\* decorate(), resumed after its first cycle, adds the refresh listener
Heard ==
  /\ pills' = PillsHeard(pills, emitted')
  /\ hero' = HeroHeard(hero, emitted', now)
  /\ listening' = [listening EXCEPT ![block] = "yes"]
  /\ UNCHANGED <<cycles, reported, health>>

\* the service a block fetches directly answers
DirectNotOk(resp) == block # "firms" /\ FetchNotOk(1, resp)
DirectOk(resp) == block # "firms" /\ FetchOk(1, resp)
DirectRejects == block # "firms" /\ FetchRejects(1)

\* fetchAndRender() of earthquake-feed after its await
RenderEarthquakes ==
  /\ block = "earthquakes"
  /\ Resume(1)
  /\ LET data == result[1].data
         error == result[1].error
         cleared == [dom EXCEPT !.skeleton = FALSE, !.content = Null,
                                !.error = Null]
         features == Items(Prop(data, "features"))
         n == Tally([i \in 1 .. Len(features) |-> severityClass(features[i])])
     IN  IF ShowsError(data, error)
           THEN /\ dom' = [cleared EXCEPT !.error =
                             Str("Failed to load earthquake data: " \o error.s)]
                /\ emitted' = <<DataReady("earthquakes", Null, error)>>
           ELSE /\ dom' = [cleared EXCEPT
                             !.warnings = IF result[1].stale THEN @ + 1 ELSE @,
                             !.content = Content(features, FALSE)]
                /\ emitted' =
                     <<DataReady("earthquakes",
                                 Counts(n.critical, n.warn, n.ok), Null),
                       Event("dashboard:refresh:complete",
                             [source |-> "earthquakes"])>>
  /\ Heard
  /\ UNCHANGED <<env, proxy, block>>

\* fetchAndRender() of eonet-events after its await
RenderEonet ==
  /\ block = "eonet"
  /\ Resume(1)
  /\ LET data == result[1].data
         error == result[1].error
         cleared == [dom EXCEPT !.skeleton = FALSE, !.content = Null,
                                !.error = Null]
         events == Items(Prop(data, "events"))
         n == Tally([i \in 1 .. Len(events) |-> eonetSeverity(events[i])])
     IN  IF ShowsError(data, error)
           THEN /\ dom' = [cleared EXCEPT !.error =
                             Str("Failed to load EONET events: " \o error.s)]
                /\ emitted' = <<DataReady("eonet", Null, error)>>
           ELSE /\ dom' = [cleared EXCEPT
                             !.content = Content(events, result[1].stale)]
                /\ emitted' =
                     <<DataReady("eonet",
                                 Counts(n.critical, Len(events) - n.critical,
                                        0),
                                 Null)>>
  /\ Heard
  /\ UNCHANGED <<env, proxy, block>>

\* fetchAndRender() of firms-fires after its await
RenderFirms ==
  /\ block = "firms"
  /\ Resume(1)
  /\ LET data == result[1].data
         error == result[1].error
         cleared == [dom EXCEPT !.skeleton = FALSE, !.content = Null,
                                !.error = Null, !.notice = FALSE]
         rows == Items(data)
         n == Tally([i \in 1 .. Len(rows) |-> frpSeverity(rows[i])])
     IN  IF IsUnconfigured(data)
           THEN /\ dom' = [cleared EXCEPT !.notice = TRUE]
                /\ emitted' =
                     <<DataReady("firms", Null, Str("Not configured"))>>
           ELSE IF ShowsError(data, error)
           THEN /\ dom' = [cleared EXCEPT !.error =
                             Str("Failed to load FIRMS fire data: " \o error.s)]
                /\ emitted' = <<DataReady("firms", Null, error)>>
           ELSE /\ dom' = [cleared EXCEPT
                             !.content = Content(rows, result[1].stale)]
                /\ emitted' =
                     <<DataReady("firms", Counts(n.critical, n.warn, n.ok),
                                 Null)>>
  /\ Heard
  /\ UNCHANGED <<env, proxy, block>>

\* an entry written one TTL ago by an earlier page load of the same tab
ExpiredEntry(b) ==
  LET ttl == ttlMsOf(BlockOptions(b))
      data == IF b = "firms" THEN parseCsv(<< <<"frp">>, <<"150">> >>)
              ELSE Obj([x |-> Num(1)])
  IN  JSONstringify(Obj([data |-> data, cachedAt |-> Num(0 - ttl.n),
                         ttl |-> ttl]))

InitSite ==
  /\ now = 0
  /\ block \in Blocks
  /\ env \in (IF block = "firms" THEN ApiKeys ELSE {Undefined})
  /\ sessionStorage \in
       {[k \in SiteKeys |-> IF k = UrlOf(block) THEN raw ELSE Null] :
          raw \in {Null, ExpiredEntry(block)}}
  /\ pc = [c \in Calls |-> "idle"]
  /\ args = [c \in Calls |-> NoArgs]
  /\ cached = [c \in Calls |-> Null]
  /\ remaining = [c \in Calls |-> 0]
  /\ lastError = [c \in Calls |-> Null]
  /\ timer = [c \in Calls |-> Null]
  /\ response = [c \in Calls |-> Null]
  /\ result = [c \in Calls |-> NoResult]
  /\ hist = [c \in Calls |-> NoHist]
  /\ lastSuccess = [k \in SiteKeys |-> Null]
  /\ proxy = NoRequest
  /\ dom = InitialDom
  /\ emitted = <<>>
  /\ pills = InitialPills
  /\ hero = InitialHero
  /\ listening = [b \in Sources |-> "no"]
  /\ cycles = [b \in Sources |-> 0]
  /\ reported = {}
  /\ health = InitialHealth

\* the timeout of 10 s does not elapse within the time modelled, and the
\* request of an attempt always reaches the proxy
NextSite ==
  \/ Decorate
  \/ Refresh
  \/ \E resp \in SiteResponses : DirectNotOk(resp)
  \/ \E resp \in SiteResponses : DirectOk(resp)
  \/ DirectRejects
  \/ \E q \in BOOLEAN : BodyRead(1, q)
  \/ Wake(1)
  \/ Tick
  \/ OnRequestGet
  \/ \E status \in UpstreamStatuses, csv \in Csvs : UpstreamResponds(status, csv)
  \/ UpstreamRejects
  \/ TextRead
  \/ TextRejects
  \/ Deliver
  \/ RenderEarthquakes
  \/ RenderEonet
  \/ RenderFirms

SpecSite == InitSite /\ [][NextSite]_vars


(* ======================= properties of apiFetch ======================== *)
Done(c) == pc[c] = "done"
\* the entry a stored string holds: payload, storedAt, ttl
IsEntry(raw) ==
  /\ raw.t = "json"
  /\ raw.v.t = "obj"
  /\ {"cachedAt", "ttl"} \subseteq DOMAIN raw.v.f
PayloadOf(raw) ==
  IF "data" \in DOMAIN raw.v.f THEN raw.v.f.data ELSE Undefined
\* fresh: now - storedAt < ttl
FreshAt(raw, time) ==
  IsEntry(raw) /\ time - raw.v.f.cachedAt.n < raw.v.f.ttl.n
\* every network attempt of the finished call failed
AllAttemptsFailed(c) ==
  Done(c) /\ hist[c].netCalls >= 1 /\ hist[c].failed = hist[c].netCalls

\* C1: a call made while the cache holds a fresh entry for its identity
\* returns {data: that entry's payload, error: none, stale: false} at once,
\* without any network call.
C1_FreshHit ==
  [][\A c \in Calls :
       (pc[c] = "idle" /\ pc'[c] # "idle"
          /\ FreshAt(sessionStorage[args'[c].url], now))
       => /\ pc'[c] = "done"
          /\ result'[c] =
               Returned(PayloadOf(sessionStorage[args'[c].url]), Null, FALSE)
          /\ hist'[c].netCalls = 0]_vars
C1_Witness ==
  \E c \in Calls :
    /\ Done(c) /\ hist[c].netCalls = 0 /\ hist[c].how = "fresh"
    /\ FreshAt(hist[c].stored, now)
    /\ result[c].data = Obj([x |-> Num(1)])

\* C2: with a prior (possibly expired) entry for the identity, a call whose
\* every network attempt fails returns the entry's payload with stale = true
\* and the message of the last failure as error.
C2_StaleFallback ==
  \A c \in Calls :
    (AllAttemptsFailed(c) /\ IsEntry(hist[c].stored))
    => result[c] = Returned(PayloadOf(hist[c].stored), hist[c].lastMsg, TRUE)
C2_Witness ==
  \E c \in Calls :
    /\ AllAttemptsFailed(c) /\ IsEntry(hist[c].stored)
    /\ hist[c].netCalls = 3
    /\ result[c].stale /\ result[c].data = Obj([x |-> Num(1)])

\* C3: with no prior entry for the identity, a call whose every network
\* attempt fails returns data null, stale = false and the message of the
\* final failed attempt as error.
C3_HardFailure ==
  \A c \in Calls :
    (AllAttemptsFailed(c) /\ hist[c].stored = Null)
    => result[c] = Returned(Null, hist[c].lastMsg, FALSE)
C3_Witness ==
  \E c \in Calls :
    /\ AllAttemptsFailed(c) /\ hist[c].stored = Null
    /\ hist[c].netCalls = 3
    /\ result[c].error = Str("HTTP 500 Internal Server Error")


\* data is absent: null or undefined
Absent(data) == data.t \in {"null", "undefined"}
\* error is non-empty
NonEmpty(error) == error.t = "str" /\ error.s # ""

\* C4: after every call, for every cache state, options value and sequence of
\* network outcomes, error is non-empty whenever data is absent, and
\* stale = true only when data is present.
C4_ResultInvariant ==
  \A c \in Calls :
    (Done(c) /\ result[c].kind = "return")
    => /\ Absent(result[c].data) => NonEmpty(result[c].error)
       /\ result[c].stale => ~Absent(result[c].data)

\* C5: stale is true iff data was taken from an expired cache entry after all
\* live attempts of the call failed; a result with stale = true carries a
\* non-empty error, and a fresh hit or a successful attempt has stale = false.
C5_StaleIff ==
  \A c \in Calls :
    (Done(c) /\ result[c].kind = "return")
    => /\ result[c].stale <=>
            /\ hist[c].failed = hist[c].netCalls
            /\ IsEntry(hist[c].stored) /\ ~FreshAt(hist[c].stored, now)
            /\ result[c].data = PayloadOf(hist[c].stored)
            /\ hist[c].how # "fresh"
       /\ result[c].stale => NonEmpty(result[c].error)
       /\ hist[c].how \in {"fresh", "success"} => ~result[c].stale

\* C6: apiFetch never ends with an exception: whatever the transport errors,
\* timeouts, statuses, decode failures, unreadable cache records and failed
\* cache writes, the call ends by returning a {data, error, stale} result.
C6_NeverThrows ==
  \A c \in Calls :
    /\ result[c].kind # "throw"
    /\ Done(c) => /\ result[c].kind = "return"
                  /\ result[c].stale \in BOOLEAN
C6_Witness ==
  \E c \in Calls :
    /\ Done(c) /\ hist[c].stored = Garbage
    /\ hist[c].failed = 2
    /\ result[c].kind = "return"


\* C7 as stated: after a successful network fetch for K, any later call for K
\* made before the effective TTL chosen at that write has elapsed returns the
\* payload of that fetch and issues no network call.
C7_AfterAnySuccess ==
  \A c \in Calls :
    (Done(c) /\ hist[c].prior # Null)
    => /\ result[c] = Returned(hist[c].prior.data, Null, FALSE)
       /\ hist[c].netCalls = 0
\* C7 amended: the same, for a successful fetch whose cache write reached the
\* storage and has not been followed by another successful fetch for K.
C7_AfterStoredSuccess ==
  \A c \in Calls :
    (Done(c) /\ hist[c].prior # Null /\ hist[c].prior.stored)
    => /\ result[c] = Returned(hist[c].prior.data, Null, FALSE)
       /\ hist[c].netCalls = 0
C7_Witness ==
  \E c \in Calls :
    /\ Done(c) /\ hist[c].prior # Null /\ hist[c].prior.stored
    /\ now > lastSuccess[args[c].url].at
    /\ lastSuccess[args[c].url].ttl = Num(1000)
    /\ result[c].data = Obj([x |-> Num(1)])

\* maxRetries as the caller means it: options.maxRetries, 2 when not given
MaxRetriesAsked(c) ==
  IF args[c].options.maxRetries = Undefined THEN 2
  ELSE args[c].options.maxRetries.n

\* C8: for maxRetries >= 0 a call that misses the fresh cache makes at most
\* maxRetries + 1 network attempts, exactly maxRetries + 1 when every attempt
\* fails, and none after the first successful one.
C8_AttemptCount ==
  \A c \in Calls :
    (pc[c] # "idle" /\ MaxRetriesAsked(c) >= 0)
    => /\ hist[c].netCalls <= MaxRetriesAsked(c) + 1
       /\ (Done(c) /\ hist[c].how = "fallback")
            => /\ hist[c].netCalls = MaxRetriesAsked(c) + 1
               /\ hist[c].failed = hist[c].netCalls
       /\ hist[c].failed < hist[c].netCalls
            => \/ pc[c] \in {"fetch", "body"}
               \/ Done(c) /\ hist[c].how = "success"
       /\ hist[c].how = "success"
            => Done(c) /\ hist[c].netCalls = hist[c].failed + 1
       /\ (pc[c] # "done" \/ hist[c].how # "fresh") => hist[c].netCalls >= 1
C8_Witness ==
  \E c \in Calls :
    /\ Done(c) /\ hist[c].how = "fallback"
    /\ MaxRetriesAsked(c) = 2 /\ hist[c].netCalls = 3

\* C9: the wait after the failed attempt with index i is 500 * 2^i ms when
\* another attempt remains (500 then 1000 for maxRetries = 2), there is no
\* wait after the final failed attempt, and the wait does not depend on the
\* way the attempt failed.
C9_Backoff ==
  \A c \in Calls :
    \A k \in 1 .. Len(hist[c].waits) :
      hist[c].waits[k] =
        IF k - 1 < MaxRetriesAsked(c) THEN Num(500 * 2 ^ (k - 1)) ELSE Null
C9_Witness ==
  \E c \in Calls :
    /\ Done(c) /\ hist[c].waits = <<Num(500), Num(1000), Null>>
    /\ hist[c].lastMsg = Str("Failed to fetch")


\* the positions of the max-age=<seconds> directives of a Cache-Control
\* header, the directive spelled as written here
MaxAgeDirectives(cc) ==
  IF cc = NoHeader THEN {}
  ELSE {i \in 1 .. Len(cc.toks) - 1 :
          /\ "w" \in DOMAIN cc.toks[i]
          /\ cc.toks[i].w = "max-age="
          /\ "d" \in DOMAIN cc.toks[i + 1]}
\* the TTL the written entry is to have
TtlAsked(resp, options) ==
  IF MaxAgeDirectives(resp.cc) # {}
    THEN LET i == CHOOSE i \in MaxAgeDirectives(resp.cc) : TRUE
         IN  Num(resp.cc.toks[i + 1].d * 1000)
    ELSE IF options.ttlMs = Undefined THEN Num(300000) ELSE options.ttlMs

\* C10: the entry written on a successful attempt has ttl = max-age * 1000 ms
\* whenever the response's Cache-Control carries a max-age=<seconds>
\* directive (0 included, whatever options.ttl is), and ttl = options.ttl
\* (default 300000 ms) when it carries none.
C10_EffectiveTtl ==
  [][\A c \in Calls :
       (pc[c] = "body" /\ pc'[c] = "done" /\ hist'[c].how = "success"
          /\ lastSuccess'[args[c].url].stored)
       => /\ IsEntry(sessionStorage'[args[c].url])
          /\ sessionStorage'[args[c].url].v.f.ttl =
               TtlAsked(response[c], args[c].options)]_vars

C10_Witness ==
  \E c \in Calls :
    /\ Done(c) /\ hist[c].how = "success"
    /\ args[c].options.ttlMs = Num(1000)
    /\ lastSuccess[args[c].url].stored
    /\ IsEntry(sessionStorage[args[c].url])
    /\ sessionStorage[args[c].url].v.f.ttl = Num(0)
    /\ sessionStorage[args[c].url].v.f.cachedAt = Num(now)

\* the body of the response of call c cannot be decoded in the format asked for
Undecodable(c) ==
  /\ pc[c] = "body"
  /\ parseOf(args[c].options) = "json"
  /\ ResponseJson(response[c].body).err # NoError
\* the sleep a failed attempt of call c is followed by
BackoffAsked(c) ==
  IF remaining[c] > 0
    THEN Num(500 * 2 ^ (MaxRetriesAsked(c) - remaining[c]))
    ELSE Null

\* C11: when the transport call completes with a success status and decoding
\* the body fails, the attempt is a failure with message "Failed to parse
\* response", nothing is written to the cache, one retry is consumed and the
\* backoff is the one of any other failure.
C11_DecodeFailure ==
  [][\A c \in Calls :
       (Undecodable(c) /\ pc'[c] # "body")
       => /\ hist'[c].failed = hist[c].failed + 1
          /\ hist'[c].lastMsg = Str("Failed to parse response")
          /\ sessionStorage' = sessionStorage
          /\ hist'[c].waits = Append(hist[c].waits, BackoffAsked(c))]_vars
\* the part of C11 that does not name the message
C11_DecodeFailureCounts ==
  [][\A c \in Calls :
       (Undecodable(c) /\ pc'[c] # "body")
       => /\ hist'[c].failed = hist[c].failed + 1
          /\ sessionStorage' = sessionStorage
          /\ hist'[c].waits = Append(hist[c].waits, BackoffAsked(c))]_vars
C11_Seen ==
  \E c \in Calls :
    /\ pc[c] = "sleep"
    /\ hist[c].lastMsg = Str("Unexpected end of JSON input")
    /\ hist[c].waits = <<Num(500)>>

\* the timeout the caller of call c asked for
TimeoutAsked(c) ==
  IF args[c].options.timeoutMs = Undefined THEN 10000
  ELSE args[c].options.timeoutMs.n
\* the network call of an attempt of c is in flight: the response or its body
\* is awaited
InFlight(c) == pc[c] \in {"fetch", "body"}

\* C12: no attempt stays in flight (response awaited or body being decoded)
\* longer than timeout ms: by then it has been aborted and has failed with
\* "Request timed out".
C12_TimeoutBound ==
  \A c \in Calls :
    InFlight(c) => now - hist[c].since.n <= TimeoutAsked(c)
\* the bound while the response is awaited
C12_FetchBound ==
  \A c \in Calls :
    pc[c] = "fetch" => now - hist[c].since.n <= TimeoutAsked(c)
C12_Seen ==
  \E c \in Calls :
    /\ pc[c] = "sleep"
    /\ hist[c].lastMsg = Str("Request timed out")
    /\ hist[c].netCalls = 1

\* the network call of the attempt of c completes in this step with a status
\* that is not a success
CompletesNotOk(c) ==
  /\ pc[c] = "fetch"
  /\ response'[c] # Null
  /\ ~response'[c].ok

\* C13: when the network call of an attempt completes with a non-success
\* status, the attempt fails with the message "HTTP <status> <statusText>",
\* the body is not decoded and nothing is written to the cache.
C13_NonSuccessStatus ==
  [][\A c \in Calls :
       /\ CompletesNotOk(c)
            => /\ hist'[c].failed = hist[c].failed + 1
               /\ hist'[c].lastMsg.s
                    = "HTTP " \o ToString(response'[c].status) \o " "
                        \o response'[c].statusText
               /\ pc'[c] # "body"
               /\ sessionStorage' = sessionStorage
       /\ pc'[c] = "body" => response'[c].ok]_vars
C13_Witness ==
  \E c \in Calls :
    /\ Done(c) /\ hist[c].failed = 2
    /\ response[c] # Null /\ response[c].status = 503
    /\ result[c].error = Str("HTTP 503 Service Unavailable")
    /\ sessionStorage[args[c].url] = hist[c].stored

\* the payload decoded from the response whose body call c is reading
DecodedBody(c) ==
  IF parseOf(args[c].options) = "json"
    THEN ResponseJson(response[c].body).data
    ELSE Str(response[c].body)
\* the attempt of call c succeeds in this step
AttemptSucceeds(c) ==
  pc[c] = "body" /\ pc'[c] = "done" /\ hist'[c].how = "success"

\* C14: a successful attempt returns {data: payload, error: none,
\* stale: false} whether its cache write succeeds or fails, and a failed write
\* leaves what was stored for the identity as it was.
C14_FailedWrite ==
  [][\A c \in Calls :
       AttemptSucceeds(c)
       => /\ result'[c] = Returned(DecodedBody(c), Null, FALSE)
          /\ ~lastSuccess'[args[c].url].stored
               => sessionStorage' = sessionStorage]_vars
C14_Witness ==
  \E c \in Calls :
    /\ Done(c) /\ hist[c].how = "success"
    /\ ~lastSuccess[args[c].url].stored
    /\ result[c] = Returned(Null, Null, FALSE)
    /\ IsEntry(sessionStorage[args[c].url])
    /\ PayloadOf(sessionStorage[args[c].url]) = Obj([x |-> Num(1)])

\* a stored record that is no cache entry: corrupt or unreadable
Corrupt(raw) == raw # Null /\ ~IsEntry(raw)

\* C15: the cache read never raises, and a call that finds a corrupt or
\* unreadable record behaves like a call that finds none: it is no cache hit,
\* and when all its attempts fail it returns data null, stale = false and the
\* last message.
C15_CorruptAsAbsent ==
  \A c \in Calls :
    (pc[c] # "idle" /\ Corrupt(hist[c].stored))
    => /\ hist[c].how \notin {"fresh", "throw"}
       /\ AllAttemptsFailed(c)
            => result[c] = Returned(Null, hist[c].lastMsg, FALSE)
\* the same for the records JSON.parse rejects
C15_UnreadableAsAbsent ==
  \A c \in Calls :
    (pc[c] # "idle" /\ hist[c].stored = Garbage)
    => /\ hist[c].how \notin {"fresh", "throw"}
       /\ AllAttemptsFailed(c)
            => result[c] = Returned(Null, hist[c].lastMsg, FALSE)
C15_Seen ==
  \E c \in Calls :
    /\ AllAttemptsFailed(c) /\ hist[c].stored = Garbage
    /\ hist[c].netCalls = 2
C15_SeenCorrupt ==
  \E c \in Calls :
    /\ AllAttemptsFailed(c) /\ hist[c].stored = Unshaped
    /\ result[c].stale /\ result[c].data = Undefined

\* C16 as stated: an attempt that succeeds after earlier attempts of the call
\* failed makes the call return {data: decoded payload, error: none,
\* stale: false}, and the cache entry of the identity is overwritten with the
\* new payload.
C16_SuccessAfterFailures ==
  [][\A c \in Calls :
       (AttemptSucceeds(c) /\ hist[c].failed >= 1)
       => /\ result'[c] = Returned(DecodedBody(c), Null, FALSE)
          /\ IsEntry(sessionStorage'[args[c].url])
          /\ PayloadOf(sessionStorage'[args[c].url]) = DecodedBody(c)]_vars
\* C16 amended: the same result; the entry is overwritten with the new payload
\* when the cache write reaches the storage.
C16_SuccessAfterFailuresStored ==
  [][\A c \in Calls :
       (AttemptSucceeds(c) /\ hist[c].failed >= 1)
       => /\ result'[c] = Returned(DecodedBody(c), Null, FALSE)
          /\ lastSuccess'[args[c].url].stored
               => /\ IsEntry(sessionStorage'[args[c].url])
                  /\ PayloadOf(sessionStorage'[args[c].url])
                       = DecodedBody(c)]_vars
C16_Witness ==
  \E c \in Calls :
    /\ Done(c) /\ hist[c].how = "success" /\ hist[c].failed = 2
    /\ lastError[c] = Str("Failed to fetch")
    /\ result[c] = Returned(Null, Null, FALSE)
    /\ IsEntry(hist[c].stored)
    /\ PayloadOf(hist[c].stored) = Obj([x |-> Num(1)])
    /\ lastSuccess[args[c].url].stored
    /\ PayloadOf(sessionStorage[args[c].url]) = Null

\* the stored string the successful attempt of call c is to leave: its
\* payload, the time of its write and the TTL it chose
WrittenBy(c) ==
  JSONstringify(Obj([data |-> DecodedBody(c), cachedAt |-> Num(now),
                     ttl |-> TtlAsked(response[c], args[c].options)]))

\* C17: of two calls for the same identity that overlap, each one that misses
\* the fresh cache makes its own network call; each successful attempt writes
\* the cache, and whatever the storage holds for the identity is entirely the
\* entry of the write that happened last: payload, storedAt and ttl of one
\* and the same call.
C17_LastWriterWins ==
  [][/\ \A c \in OverlapCalls :
          (pc[c] = "idle" /\ pc'[c] # "idle"
             /\ ~FreshAt(sessionStorage[args'[c].url], now))
          => pc'[c] = "fetch" /\ hist'[c].netCalls = 1
     /\ \A c \in OverlapCalls :
          (AttemptSucceeds(c) /\ lastSuccess'[args[c].url].stored)
          => sessionStorage'[args[c].url] = WrittenBy(c)
     /\ \A k \in Keys :
          sessionStorage'[k] # sessionStorage[k]
          => \E c \in OverlapCalls :
               /\ AttemptSucceeds(c) /\ args[c].url = k
               /\ sessionStorage'[k] = WrittenBy(c)]_vars
C17_Witness ==
  /\ \A c \in OverlapCalls :
       /\ Done(c) /\ hist[c].how = "success"
       /\ hist[c].stored = Null /\ hist[c].netCalls >= 1
       /\ args[c].url = "A"
  /\ result[1].data = Obj([x |-> Num(1)])
  /\ result[2].data = Null
  /\ lastSuccess["A"].stored
  /\ sessionStorage["A"] =
       JSONstringify(Obj([data |-> Null, cachedAt |-> Num(now),
                          ttl |-> Num(0)]))

(* ==================== properties of the FIRMS proxy ==================== *)
\* the body is JSON text of an object whose only member is an error string
IsErrorBody(body) ==
  LET read == ResponseJson(body)
  IN  /\ read.err = NoError
      /\ read.data.t = "obj"
      /\ DOMAIN read.data.f = {"error"}
      /\ read.data.f.error.t = "str"
\* the hotspots of a CSV text: one per line below the header line, each with
\* the cell under every header, "" where the line is short
Hotspots(csv) ==
  [r \in 1 .. Len(csv) - 1 |->
     Obj([h \in {csv[1][i] : i \in 1 .. Len(csv[1])} |->
            LET i == CHOOSE i \in 1 .. Len(csv[1]) : csv[1][i] = h
            IN  Str(IF i \in DOMAIN csv[r + 1] THEN csv[r + 1][i] ELSE "")])]

\* C18: onRequestGet answers with exactly one of: 503 and an {error} body
\* without any upstream call when FIRMS_API_KEY is not set; the upstream's
\* status and an {error} body when the upstream's status is no success; 200
\* and the array decoded from the CSV on success; 500 and an {error} body
\* when the upstream call or the reading of its body throws.
C18_ProxyAnswers ==
  proxy.pc = "done"
  => LET sent == proxy.response
     IN  IF ~Truthy(env)
           THEN sent.status = 503 /\ IsErrorBody(sent.body) /\ proxy.calls = 0
         ELSE /\ proxy.calls = 1
              /\ CASE proxy.upstream.kind \in {"rejected", "unread"} ->
                        sent.status = 500 /\ IsErrorBody(sent.body)
                   [] proxy.upstream.status \notin 200 .. 299 ->
                        /\ sent.status = proxy.upstream.status
                        /\ IsErrorBody(sent.body)
                   [] OTHER ->
                        /\ sent.status = 200
                        /\ ResponseJson(sent.body).data
                             = Arr(Hotspots(proxy.csv))
C18_Witness ==
  /\ proxy.pc = "done"
  /\ env = Str("MAPKEY")
  /\ proxy.response.status = 200
  /\ ResponseJson(proxy.response.body).data
       = Arr(<<Obj([frp |-> Str("30"), lat |-> Str("")])>>)

(* ===================== properties of the data blocks =================== *)
\* a render cycle of block b ends in this step, after its call of apiFetch
\* went to the network
RenderEnds(b) ==
  block = b /\ pc[1] = "done" /\ pc'[1] = "idle" /\ hist[1].netCalls >= 1

\* C19: when FIRMS_API_KEY is not set, a render cycle of firms-fires that
\* fetched the proxy shows the 'FIRMS API key not configured' notice and
\* emits dashboard:dataReady for 'firms' with error 'Not configured'.
C19_UnconfiguredNotice ==
  [][(RenderEnds("firms") /\ ~Truthy(env))
     => /\ dom'.notice
        /\ dom'.error = Null
        /\ emitted' = <<DataReady("firms", Null, Str("Not configured"))>>]_vars
\* what the block shows instead
C19_Seen ==
  /\ block = "firms" /\ ~Truthy(env) /\ pc[1] = "idle"
  /\ ~dom.notice
  /\ dom.error = Str("Failed to load FIRMS fire data: HTTP 503 ")
  /\ emitted = <<DataReady("firms", Null, Str("HTTP 503 "))>>
C19_SeenStale ==
  /\ block = "firms" /\ ~Truthy(env) /\ pc[1] = "idle"
  /\ ~dom.notice /\ dom.error = Null
  /\ dom.content # Null /\ dom.content.warn

\* a render cycle ends in this step: the block has drawn what apiFetch returned
CycleEnds == pc[1] = "done" /\ pc'[1] = "idle"
\* the list a block draws from the data of apiFetch
Drawn(b, data) ==
  CASE b = "earthquakes" -> Items(Prop(data, "features"))
    [] b = "eonet" -> Items(Prop(data, "events"))
    [] OTHER -> Items(data)
\* the block shows the 'Showing cached data' warning
WarningShown(d) == d.warnings >= 1 \/ (d.content # Null /\ d.content.warn)

\* C20: in each data block a render cycle shows the error state only when
\* apiFetch returned no data, and when apiFetch returned stale data the block
\* draws that data with the 'Showing cached data' warning and no error state.
C20_ErrorOnlyWithoutData ==
  [][CycleEnds
     => /\ dom'.error # Null => Absent(result[1].data)
        /\ (result[1].stale /\ ~Absent(result[1].data))
             => /\ dom'.error = Null
                /\ dom'.content # Null
                /\ dom'.content.items = Drawn(block, result[1].data)
                /\ WarningShown(dom')]_vars
C20_Witness ==
  /\ block = "firms" /\ pc[1] = "idle"
  /\ dom.error = Null
  /\ dom.content = Content(<<Obj([frp |-> Str("150")])>>, TRUE)
  /\ emitted = <<DataReady("firms", Counts(1, 0, 0), Null)>>
C20_SeenError ==
  /\ block = "eonet" /\ pc[1] = "idle"
  /\ dom.error = Str("Failed to load EONET events: Failed to fetch")
  /\ dom.content = Null
C20_SeenQuake ==
  /\ block = "earthquakes" /\ pc[1] = "idle"
  /\ dom.error = Null /\ dom.warnings = 1 /\ dom.content # Null

\* the response of onRequestGet as the upstream's outcome alone decides it:
\* configured or not, what the upstream fetch did, the CSV read
AnswerTo(configured, upstream, csv) ==
  IF ~configured
    THEN [status |-> 503, cc |-> NoHeader, payload |-> NotConfiguredBody]
  ELSE IF upstream.kind = "rejected"
    THEN [status |-> 500, cc |-> NoHeader,
          payload |-> Obj([error |-> Str("Proxy error: fetch failed")])]
  ELSE IF upstream.kind = "unread"
    THEN [status |-> 500, cc |-> NoHeader,
          payload |-> Obj([error |-> Str("Proxy error: terminated")])]
  ELSE IF upstream.status \notin 200 .. 299
    THEN [status |-> upstream.status, cc |-> NoHeader,
          payload |-> Obj([error |-> Str("FIRMS upstream error: HTTP "
                                            \o ToString(upstream.status))])]
  ELSE [status |-> 200, cc |-> ProxyCacheControl,
        payload |-> Arr(Hotspots(csv))]

\* C21: the response of the proxy (status, headers, body) is decided by
\* whether FIRMS_API_KEY is set and by the upstream's outcome, not by the
\* value of the key: runs that differ only in that value send the same.
C21_KeyBlind ==
  proxy.pc = "done"
  => LET a == AnswerTo(Truthy(env), proxy.upstream, proxy.csv)
     IN  /\ proxy.response.status = a.status
         /\ proxy.response.cc = a.cc
         /\ proxy.response.statusText = ""
         /\ ResponseJson(proxy.response.body).data = a.payload
C21_Witness ==
  /\ proxy.pc = "done"
  /\ env = Str("OTHERKEY")
  /\ proxy.url = FIRMS_BASE \o "/OTHERKEY/VIIRS_SNPP_NRT/world/1"
  /\ proxy.upstream = [kind |-> "rejected"]
  /\ proxy.response.status = 500

\* ---- a call followed to its end: time runs on to each pending deadline ----
\* The upstream may stay silent and a body may never end: neither is owed to
\* the call.  The clock, the abort timer and the back-off timer are the
\* browser's and always run.
LiveOptions == {[NoOptions EXCEPT !.timeoutMs = Num(500), !.maxRetries = Num(1)]}

\* time passes up to the horizon, and beyond it up to the deadline of a
\* pending abort or back-off timer
TickLive ==
  /\ \/ now < MaxTicks * TickMs
     \/ \E c \in Calls : pc[c] \in {"fetch", "sleep"} /\ now < timer[c].n
  /\ \A c \in DOMAIN pc : pc[c] # "done"
  /\ \A c \in DOMAIN pc : pc[c] = "fetch" => now < timer[c].n
  /\ now' = now + TickMs
  /\ UNCHANGED <<sessionStorage, pc, args, cached, remaining, lastError, timer,
                 response, result, hist, lastSuccess>>
  /\ UNCHANGED siteVars

NextLive ==
  \/ \E c \in Calls, url \in Urls, options \in LiveOptions :
       now < MaxTicks * TickMs /\ ApiFetch(c, url, options)
  \/ \E c \in Calls, resp \in Responses : FetchNotOk(c, resp)
  \/ \E c \in Calls, resp \in Responses : FetchOk(c, resp)
  \/ \E c \in Calls : FetchRejects(c)
  \/ \E c \in Calls : TimeoutFires(c)
  \/ \E c \in Calls, q \in BOOLEAN : BodyRead(c, q)
  \/ \E c \in Calls : BodyFails(c)
  \/ \E c \in Calls : Wake(c)
  \/ \E c \in Calls : Return(c)
  \/ TickLive

SpecLive ==
  /\ Init
  /\ [][NextLive]_vars
  /\ WF_vars(TickLive)
  /\ \A c \in Calls : WF_vars(TimeoutFires(c)) /\ WF_vars(Wake(c))

Running(c) == pc[c] \in {"fetch", "body", "sleep"}

\* C22: every call of apiFetch eventually returns a result, even when the
\* upstream never answers or never finishes sending a body.
C22_EventuallyReturns == \A c \in Calls : Running(c) ~> (pc[c] = "done")
\* the part of C22 the timers do deliver: a pending network operation ends
\* (answer, rejection or abort), and a back-off wait ends in the next attempt
C22_FetchEnds == \A c \in Calls : (pc[c] = "fetch") ~> (pc[c] # "fetch")
C22_SleepEnds == \A c \in Calls : (pc[c] = "sleep") ~> (pc[c] = "fetch")
\* a response whose body is being read, the abort timer already cleared
C22_Seen ==
  \E c \in Calls : pc[c] = "body" /\ now >= MaxTicks * TickMs

\* the step in which the abort timer of the attempt in flight fires
TimedOut(c) ==
  /\ pc[c] = "fetch"
  /\ hist'[c].failed = hist[c].failed + 1
  /\ hist'[c].lastMsg = Str("Request timed out")

\* C23: a timeout ends only the attempt in which it fired.  The timer that
\* fires was started with the attempt it aborts, timeout ms before; with
\* attempts remaining the call goes on to its back-off wait, and the attempt
\* made after a wait starts a timer of its own, due timeout ms later.
C23_OwnTimer ==
  [][\A c \in Calls :
       /\ TimedOut(c) => now - hist[c].since.n >= TimeoutAsked(c)
       /\ TimedOut(c) /\ remaining[c] > 0
            => pc'[c] = "sleep" /\ remaining'[c] = remaining[c]
       /\ pc[c] = "sleep" /\ pc'[c] # "sleep"
            => /\ pc'[c] = "fetch"
               /\ remaining'[c] = remaining[c] - 1
               /\ hist'[c].netCalls = hist[c].netCalls + 1
               /\ hist'[c].since = Num(now')
               /\ timer'[c] = Num(now' + TimeoutAsked(c))]_vars
\* the attempt after a timed-out one, in flight past the moment it started
C23_Witness ==
  \E c \in Calls :
    /\ pc[c] = "fetch"
    /\ lastError[c] = Str("Request timed out")
    /\ hist[c].netCalls = 2
    /\ now > hist[c].since.n

\* the step in which an attempt of call c fails, whatever made it fail
FailsAttempt(c) == hist'[c].failed = hist[c].failed + 1

\* C24: what made an attempt fail (status, transport error, timeout, body
\* that cannot be read or decoded) shows in the error message only.  A failing
\* step leaves the storage alone and makes no network call; with attempts
\* remaining it starts the wait of 500 * 2^i ms and keeps the count; with none
\* remaining it ends the call with the result the snapshot of the cache
\* decides, the message being the only part the failure supplies.
C24_KindBlind ==
  [][\A c \in Calls :
       FailsAttempt(c)
       => /\ sessionStorage' = sessionStorage
          /\ hist'[c].netCalls = hist[c].netCalls
          /\ hist'[c].waits = Append(hist[c].waits, BackoffAsked(c))
          /\ IF remaining[c] > 0
               THEN /\ pc'[c] = "sleep"
                    /\ remaining'[c] = remaining[c]
                    /\ timer'[c] = Num(now + BackoffAsked(c).n)
                    /\ result'[c] = NoResult
               ELSE /\ pc'[c] = "done"
                    /\ result'[c].kind = "return"
                    /\ result'[c].error = hist'[c].lastMsg
                    /\ result'[c].stale = Truthy(cached[c])
                    /\ result'[c].data =
                         IF Truthy(cached[c]) THEN Prop(cached[c], "data")
                         ELSE Null]_vars
\* a call ended by a timeout after a first failure, over an expired entry
C24_Witness ==
  \E c \in Calls :
    /\ AllAttemptsFailed(c) /\ hist[c].failed = 2
    /\ hist[c].lastMsg = Str("Request timed out")
    /\ hist[c].waits = <<Num(500), Null>>
    /\ result[c].stale
\* the same end reached by a non-success status
C24_SeenStatus ==
  \E c \in Calls :
    /\ AllAttemptsFailed(c) /\ hist[c].failed = 2
    /\ hist[c].lastMsg = Str("HTTP 503 Service Unavailable")
    /\ hist[c].waits = <<Num(500), Null>>
    /\ result[c].stale

\* the step in which a network attempt of call c for identity k succeeds
SucceedsFor(c, k) ==
  /\ pc[c] = "body" /\ pc'[c] = "done"
  /\ args[c].url = k
  /\ hist'[c].how = "success"

\* C25: the stored item of identity K changes only in the step in which a
\* network attempt of a call for K succeeds, and becomes the whole new entry
\* {data, cachedAt: now, ttl} whatever was there; every other step (fresh hit,
\* failed attempt, fallback, return) leaves the whole storage as it is, no
\* item is ever removed, and no other identity's item changes with K's.
C25_OnlySuccessWrites ==
  [][\A k \in DOMAIN sessionStorage :
       sessionStorage'[k] # sessionStorage[k]
       => /\ \E c \in DOMAIN pc :
               /\ SucceedsFor(c, k)
               /\ sessionStorage'[k] =
                    JSONstringify(Obj([data |-> result'[c].data,
                                       cachedAt |-> Num(now),
                                       ttl |-> lastSuccess'[k].ttl]))
          /\ sessionStorage'[k] # Null
          /\ \A j \in DOMAIN sessionStorage \ {k} :
               sessionStorage'[j] = sessionStorage[j]]_vars
\* an entry written over an expired one, the other identity's item as it was
C25_Witness ==
  \E c \in Calls :
    /\ Done(c) /\ hist[c].how = "success"
    /\ IsEntry(hist[c].stored)
    /\ IsEntry(sessionStorage["A"])
    /\ sessionStorage["A"] # hist[c].stored
    /\ sessionStorage["B"] = Garbage

\* what a call whose attempts all failed returns, read off the item the
\* storage held for its identity when the call began
SnapshotResult(raw, msg) ==
  IF raw = Null \/ raw = Garbage THEN Returned(Null, msg, FALSE)
  ELSE Returned(PayloadOf(raw), msg, TRUE)

\* C26: the stale fallback is decided by the cache entry read once when the
\* call began: after all attempts failed, data and stale flag are those of
\* that snapshot, whatever another overlapping call has written for the same
\* identity in the meantime.
C26_SnapshotDecides ==
  \A c \in DOMAIN pc :
    AllAttemptsFailed(c)
    => result[c] = SnapshotResult(hist[c].stored, hist[c].lastMsg)
\* the expired entry returned stale while the storage holds a newer one,
\* written by the other call during the retries
C26_Witness ==
  \E c \in OverlapCalls :
    /\ AllAttemptsFailed(c)
    /\ IsEntry(hist[c].stored)
    /\ IsEntry(sessionStorage[args[c].url])
    /\ sessionStorage[args[c].url] # hist[c].stored
    /\ result[c].stale
    /\ result[c].data = PayloadOf(hist[c].stored)
    /\ result[c].data # PayloadOf(sessionStorage[args[c].url])
\* no entry at the start, one written meanwhile: the hard failure stands
C26_SeenNoEntry ==
  \E c \in OverlapCalls :
    /\ AllAttemptsFailed(c)
    /\ hist[c].stored = Null
    /\ IsEntry(sessionStorage[args[c].url])
    /\ result[c] = Returned(Null, hist[c].lastMsg, FALSE)

\* ---- the page followed to the end of its cycles ----
\* the abort timer of the attempt in flight fires; the request it aborts is
\* given up, whatever the proxy was doing with it
SiteTimeout ==
  /\ pc[1] = "fetch"
  /\ timer[1].t = "num"
  /\ timer[1].n <= now
  /\ Catch(1, AbortError)
  /\ proxy' = NoRequest
  /\ UNCHANGED <<env, block, dom, emitted, pageVars>>

\* time passes until the pending abort or back-off timer is due
Elapse ==
  /\ pc[1] \in {"fetch", "sleep"}
  /\ now < timer[1].n
  /\ now' = timer[1].n
  /\ UNCHANGED <<sessionStorage, pc, args, cached, remaining, lastError, timer,
                 response, result, hist, lastSuccess>>
  /\ UNCHANGED siteVars

\* refreshes are asked for within the time modelled; what they start runs on
NextSiteLive ==
  \/ Decorate
  \/ now < MaxTicks * TickMs /\ Refresh
  \/ \E resp \in SiteResponses : DirectNotOk(resp)
  \/ \E resp \in SiteResponses : DirectOk(resp)
  \/ DirectRejects
  \/ \E q \in BOOLEAN : BodyRead(1, q)
  \/ Wake(1)
  \/ Tick
  \/ Elapse
  \/ SiteTimeout
  \/ OnRequestGet
  \/ \E status \in UpstreamStatuses, csv \in Csvs : UpstreamResponds(status, csv)
  \/ UpstreamRejects
  \/ TextRead
  \/ TextRejects
  \/ Deliver
  \/ RenderEarthquakes
  \/ RenderEonet
  \/ RenderFirms

\* the browser runs decorate(), its timers and the continuation of an await
\* that has settled; no answer and no end of a body is owed by the network
SpecSiteLive ==
  /\ InitSite
  /\ [][NextSiteLive]_vars
  /\ WF_vars(Decorate)
  /\ WF_vars(Elapse) /\ WF_vars(SiteTimeout) /\ WF_vars(Wake(1))
  /\ WF_vars(RenderEarthquakes) /\ WF_vars(RenderEonet) /\ WF_vars(RenderFirms)

IsLoading(pill) == "summary-pill--loading" \in pill.classes
\* the dataReady events among those dispatched
DataReadyIn(events) ==
  {i \in 1 .. Len(events) : events[i].name = "dashboard:dataReady"}

\* C27: every render cycle of a data block emits exactly one
\* dashboard:dataReady carrying the block's source, whatever apiFetch
\* returned, so that after a dashboard:refresh the pill reset to loading
\* eventually leaves the loading state.
C27_PillLeavesLoading ==
  (hero.lastUpdated = "Refreshing" /\ IsLoading(pills[block]))
    ~> ~IsLoading(pills[block])
\* the part of C27 about a cycle that ends: one dataReady, of the block's
\* source, and the pill of that source is no longer loading
C27_OneDataReady ==
  [][CycleEnds
     => /\ Cardinality(DataReadyIn(emitted')) = 1
        /\ \A i \in DataReadyIn(emitted') :
             Prop(emitted'[i].detail, "source") = Str(block)
        /\ ~IsLoading(pills'[block])]_vars
\* a refresh heard while the body of a response is being read
C27_Seen ==
  /\ pc[1] = "body" /\ timer[1] = Null
  /\ hero.lastUpdated = "Refreshing" /\ IsLoading(pills[block])
\* a refresh whose cycle ended after a timed-out attempt
C27_SeenLeft ==
  /\ listening[block] = "yes" /\ pc[1] = "idle"
  /\ hero.readyCount = 1 /\ ~IsLoading(pills[block])
  /\ now >= 10000

\* ---- the page with its three data blocks, each cycle taken as one step ----
\* the page as loaded, nothing stored in this tab yet
InitPage == Init /\ sessionStorage = [k \in Keys |-> Null]
MaxInFlight == 2
\* what the dataReady of a cycle that ends may carry
CycleOutcomes ==
  {[counts |-> Counts(0, 2, 1), error |-> Null],
   [counts |-> Null, error |-> Str("HTTP 500 Internal Server Error")]}

\* decorate() of block b starts its first render cycle
PageDecorate(b) ==
  /\ listening[b] = "no"
  /\ listening' = [listening EXCEPT ![b] = "first"]
  /\ cycles' = [cycles EXCEPT ![b] = 1]
  /\ UNCHANGED <<callVars, env, proxy, block, dom, emitted, pills, hero,
                 reported, health>>

\* dashboard:refresh: the hero and status-summary reset, every block that
\* listens starts one more cycle, whether or not an earlier one is in flight
PageRefresh ==
  /\ \A b \in Sources : listening[b] = "yes" => cycles[b] < MaxInFlight
  /\ hero' = onRefresh(hero)
  /\ pills' = SummaryOnRefresh(pills)
  /\ cycles' = [b \in Sources |->
                  IF listening[b] = "yes" THEN cycles[b] + 1 ELSE cycles[b]]
  /\ reported' = {}
  /\ UNCHANGED <<callVars, env, proxy, block, dom, emitted, listening,
                 health>>

\* a cycle of block b ends: its dataReady reaches both listeners; after its
\* first cycle the block listens for dashboard:refresh
PageCycleEnds(b, outcome) ==
  /\ cycles[b] > 0
  /\ cycles' = [cycles EXCEPT ![b] = @ - 1]
  /\ emitted' = <<DataReady(b, outcome.counts, outcome.error)>>
  /\ pills' = PillsHeard(pills, emitted')
  /\ hero' = HeroHeard(hero, emitted', now)
  /\ listening' = [listening EXCEPT ![b] = "yes"]
  /\ reported' = reported \cup {b}
  /\ UNCHANGED <<callVars, env, proxy, block, dom, health>>

NextPage ==
  \/ \E b \in Sources : PageDecorate(b)
  \/ PageRefresh
  \/ \E b \in Sources, outcome \in CycleOutcomes : PageCycleEnds(b, outcome)

SpecPage == InitPage /\ [][NextPage]_vars

\* C28: the status dot of the hero is 'ok' only if each of the three data
\* sources has emitted dataReady since the most recent refresh (since the
\* page was loaded, before the first refresh); until then it is 'loading'.
C28_OkOnlyWhenAllReported ==
  /\ "ok" \in hero.dot => reported = Sources
  /\ reported # Sources => "loading" \in hero.dot
\* what the dot does show: ok from the third dataReady counted since the
\* last refresh, loading before
C28_DotCounts ==
  /\ "ok" \in hero.dot <=> hero.readyCount >= TOTAL_SOURCES
  /\ "loading" \in hero.dot <=> hero.readyCount < TOTAL_SOURCES
\* the dot is ok after a refresh that firms has not answered yet
C28_Seen ==
  /\ hero.dot = {"hero-status-dot", "ok"}
  /\ hero.readyCount = 3
  /\ reported = {"earthquakes", "eonet"}
  /\ cycles["firms"] > 0

\* ---- status-summary alone: any dataReady and refresh events, in any order ----
\* the details a dashboard:dataReady may carry: the three known sources, an
\* unknown one, an empty one, none; counts present, partial or absent; an
\* error or none; and an event without detail
DetailSources ==
  {Str("earthquakes"), Str("eonet"), Str("firms"), Str("weather"), Str(""),
   Undefined}
DetailCounts ==
  {Null, Counts(1, 2, 0), Counts(0, 2, 0), Counts(0, 0, 3),
   Obj([warn |-> Num(1)])}
DetailErrors == {Null, Str("HTTP 500 Internal Server Error")}
Details ==
  {Obj([source |-> s, counts |-> c, error |-> e]) :
     s \in DetailSources, c \in DetailCounts, e \in DetailErrors}
    \cup {Null}

\* a dashboard:dataReady is dispatched on the document
SummaryDataReady(detail) ==
  /\ emitted' = <<Event("dashboard:dataReady", detail)>>
  /\ pills' = PillsHeard(pills, emitted')
  /\ UNCHANGED <<callVars, env, proxy, block, dom, hero, listening, cycles,
                 reported, health>>
\* a dashboard:refresh is dispatched on the document
SummaryRefresh ==
  /\ emitted' = <<Event("dashboard:refresh", Null)>>
  /\ pills' = SummaryOnRefresh(pills)
  /\ UNCHANGED <<callVars, env, proxy, block, dom, hero, listening, cycles,
                 reported, health>>

NextSummary ==
  \/ \E detail \in Details : SummaryDataReady(detail)
  \/ SummaryRefresh

SpecSummary == InitPage /\ [][NextSummary]_vars

\* the event concerns the pill of source id
Concerns(ev, id) ==
  /\ ev.name = "dashboard:dataReady"
  /\ ev.detail.t = "obj"
  /\ Prop(ev.detail, "source") = Str(id)
\* the count of one severity an event carries, 0 when it carries none
CountOf(detail, severity) ==
  LET counts == Prop(detail, "counts")
  IN  IF counts.t = "obj" /\ severity \in DOMAIN counts.f
        THEN counts.f[severity].n
        ELSE 0
\* the state class the event asks for
StateAsked(detail) ==
  IF Prop(detail, "error").t = "str" /\ Prop(detail, "counts").t # "obj"
    THEN "summary-pill--error"
  ELSE IF CountOf(detail, "critical") > 0 THEN "summary-pill--critical"
  ELSE IF CountOf(detail, "warn") > 0 THEN "summary-pill--warn"
  ELSE "summary-pill--ok"

\* C29: after every event each pill carries exactly one state class, the one
\* of the latest event that concerned it: loading after a refresh; after a
\* dataReady of its source, error when the event had an error and no counts,
\* else critical when counts.critical > 0, else warn when counts.warn > 0,
\* else ok.  A dataReady whose source is missing or unknown changes no pill.
C29_PillFollowsLatest ==
  [][\A id \in Sources :
       LET ev == emitted'[Len(emitted')]
           pill == pills'[id]
       IN  /\ Cardinality(pill.classes \cap StateClasses) = 1
           /\ IF emitted' = <<>> THEN pill = pills[id]
              ELSE IF ev.name = "dashboard:refresh"
                THEN "summary-pill--loading" \in pill.classes
              ELSE IF Concerns(ev, id)
                THEN StateAsked(ev.detail) \in pill.classes
              ELSE pill = pills[id]]_<<pills, emitted>>
\* three pills in three states, the last event being one of an unknown source
C29_Witness ==
  /\ emitted # <<>>
  /\ emitted[1].name = "dashboard:dataReady"
  /\ Prop(emitted[1].detail, "source") = Str("weather")
  /\ "summary-pill--critical" \in pills["earthquakes"].classes
  /\ "summary-pill--error" \in pills["eonet"].classes
  /\ "summary-pill--ok" \in pills["firms"].classes
  /\ pills["firms"].text = "Fire Hotspots: 3 events"

\* ---- api-health: runs of runChecks, a filter click between any two steps ----
healthOnly ==
  UNCHANGED <<callVars, env, proxy, block, dom, emitted, pills, hero,
              listening, cycles, reported>>

\* runChecks() up to its await: cards and stat counts reset, probes started
RunChecks(r) ==
  /\ ~health.runs[r].active
  /\ health' =
       [health EXCEPT
          !.cards = [id \in ApiIds |-> ResetCard(@[id])],
          !.stats = [s \in Statuses |-> 0],
          !.runs[r] = [NoRun EXCEPT !.active = TRUE]]
  /\ healthOnly

\* the probe of one API of run r returns
ProbeReturns(r, id, outcome) ==
  /\ health.runs[r].active
  /\ health.runs[r].results[id] = "pending"
  /\ health' = [health EXCEPT
                  !.runs[r].results[id] = probeApi(ApiOf(id), outcome).status]
  /\ healthOnly

\* the stat counts after results.forEach
CountsOf(results) ==
  [s \in Statuses |-> Cardinality({id \in ApiIds : results[id] = s})]

\* Promise.all has resolved: runChecks() after its await
RunCompletes(r) ==
  /\ health.runs[r].active
  /\ \A id \in ApiIds : health.runs[r].results[id] # "pending"
  /\ LET results == health.runs[r].results
         updated ==
           [health EXCEPT
              !.cards = [id \in ApiIds |->
                           updateCard(@[id],
                                      [id |-> id, status |-> results[id]])],
              !.stats = CountsOf(results),
              !.runs[r] = NoRun]
     IN  health' = applyFilter(updated, health.filter)
  /\ healthOnly

\* a click on a filter button
FilterClick(f) ==
  /\ health' = applyFilter(health, f)
  /\ healthOnly

NextHealth ==
  \/ \E r \in Runs : RunChecks(r)
  \/ \E r \in Runs, id \in ApiIds, outcome \in ProbeOutcomes :
       ProbeReturns(r, id, outcome)
  \/ \E r \in Runs : RunCompletes(r)
  \/ \E f \in FILTERS : FilterClick(f)

SpecHealth == InitPage /\ [][NextHealth]_vars

\* the card matches the filter
Matches(f, id, card) ==
  CASE f = "All" -> TRUE
    [] f = "External" -> TRUE
    [] f = "Operational" -> "ah-card--ok" \in card.classes
    [] f = "Degraded" -> "ah-card--warn" \in card.classes
    [] f = "Down" -> "ah-card--down" \in card.classes
\* the status a probe should report on an outcome
StatusAsked(id, outcome) ==
  IF outcome.kind # "decoded" THEN "down"
  ELSE IF id = "usgs" /\ outcome.data = Obj([features |-> Arr(<<>>)])
    THEN "operational"
  ELSE IF id = "eonet" /\ outcome.data = Obj([events |-> Arr(<<>>)])
    THEN "operational"
  ELSE IF id = "openmeteo" /\ outcome.data.t = "obj"
          /\ "current_weather" \in DOMAIN outcome.data.f
    THEN "operational"
  ELSE "degraded"
\* a run of runChecks completes in this step
Completes(r) == health.runs[r].active /\ ~health'.runs[r].active

\* C30: when a run of runChecks completes, overlapping another or not, every
\* card shows exactly one of operational / degraded / down, each stat count
\* is the number of cards in that state, the counts sum to the number of
\* registered APIs, and a card is hidden exactly when it does not match the
\* active filter.  A probe reports down on a non-success status, a body that
\* cannot be decoded, a transport error or a timeout, degraded when the
\* decoded body fails validation, operational otherwise.
C30_RunCompletes ==
  [][/\ \A r \in Runs :
          Completes(r)
          => LET cards == health'.cards
                 shown(s) ==
                   {id \in ApiIds : "ah-card--" \o ModOf(s) \in cards[id].classes}
             IN  /\ \A id \in ApiIds :
                      /\ Cardinality(cards[id].classes \cap CardStates) = 1
                      /\ "ah-card--loading" \notin cards[id].classes
                      /\ cards[id].hidden
                           <=> ~Matches(health'.filter, id, cards[id])
                 /\ \A s \in Statuses :
                      health'.stats[s] = Cardinality(shown(s))
                 /\ health'.stats[S_OK] + health'.stats[S_WARN]
                      + health'.stats[S_DOWN] = Len(APIS)
     /\ \A r \in Runs, id \in ApiIds :
          (health.runs[r].results[id] = "pending"
             /\ health'.runs[r].results[id] # "pending")
          => /\ health'.runs[r].results[id] \in Statuses
             /\ \A outcome \in ProbeOutcomes :
                  probeApi(ApiOf(id), outcome).status
                    = StatusAsked(id, outcome)]_health
\* a run completed while the other is in flight, under the filter Down:
\* one card of each state, two of them hidden
C30_Witness ==
  /\ health.filter = "Down"
  /\ health.runs[1].active /\ ~health.runs[2].active
  /\ health.stats = [s \in Statuses |-> 1]
  /\ Cardinality({id \in ApiIds : health.cards[id].hidden}) = 2
  /\ \A id \in ApiIds : "ah-card--loading" \notin health.cards[id].classes

====
